---- MODULE Spec2Model ----
(***************************************************************************)
(* Model of sentry.sentry_metrics.indexer.base: the key containers         *)
(* (KeyCollection, UseCaseKeyCollection), the value records (KeyResult,    *)
(* UseCaseKeyResult, Metadata), the accumulators (KeyResults,              *)
(* UseCaseKeyResults) and the StringIndexer.bulk_record pipeline contract. *)
(*                                                                         *)
(* Python values are represented as follows.                               *)
(*   str        a sequence of one-character strings, <<"1", ":", "a">>     *)
(*   dict       a function; its DOMAIN is the set of keys                  *)
(*   set        a set                                                      *)
(*   None       the value None (an id is a natural number or None)         *)
(*   an object  a record of its fields                                     *)
(*   a raise    a record [raised |-> "ValueError"]                         *)
(***************************************************************************)
EXTENDS Integers, Sequences, FiniteSets, TLC

(***************************************************************************)
(* Bounds of the model.                                                    *)
(***************************************************************************)
MaxAdds == 2
MaxMerges == 1
MaxStrLen == 2
MaxParseOrg == 11
MaxQuota == 1
MaxAssocWrites == 2
MaxBulkLen == 3

(***************************************************************************)
(* Values.                                                                 *)
(***************************************************************************)
None == -1

Orgs == {1, 2}
Strs == {<<"a">>, <<"b">>}

\* class FetchType(Enum)
CACHE_HIT == "c"
HARDCODED == "h"
DB_READ == "d"
FIRST_SEEN == "f"
RATE_LIMITED == "r"
FetchType == {CACHE_HIT, HARDCODED, DB_READ, FIRST_SEEN, RATE_LIMITED}

\* Optional[FetchType] / Optional[FetchTypeExt] when the argument is omitted
NoFetchType == "None"
NoExt == "None"
\* class FetchTypeExt(NamedTuple): is_global
FetchTypeExt(is_global) == IF is_global THEN "is_global=True" ELSE "is_global=False"

\* class Metadata(NamedTuple)
Metadata(id, fetch_type, fetch_type_ext) ==
    [id |-> id, fetch_type |-> fetch_type, fetch_type_ext |-> fetch_type_ext]

\* @dataclass KeyResult
KeyResult(org_id, string, id) == [org_id |-> org_id, string |-> string, id |-> id]

\* @dataclass UseCaseKeyResult
UseCaseKeyResult(use_case_id, org_id, string, id) ==
    [use_case_id |-> use_case_id, org_id |-> org_id, string |-> string, id |-> id]

\* Python truthiness of an Optional[int]: None and 0 are falsy
Truthy(x) == x # None /\ x # 0

(***************************************************************************)
(* dict helpers.                                                           *)
(***************************************************************************)
EmptyDict == [k \in {} |-> None]

\* d.get(k) -> d[k] or None
DictGet(d, k) == IF k \in DOMAIN d THEN d[k] ELSE None

\* d.update(e): the entries of e are written over those of d
DictUpdate(d, e) ==
    [k \in DOMAIN d \cup DOMAIN e |-> IF k \in DOMAIN e THEN e[k] ELSE d[k]]

\* d[k] = v
DictSet(d, k, v) == [x \in DOMAIN d \cup {k} |-> IF x = k THEN v ELSE d[x]]

\* defaultdict.__getitem__: the dict after the read d[k], which inserts the
\* default when k is missing
Vivify(d, k, default) == IF k \in DOMAIN d THEN d ELSE DictSet(d, k, default)

(***************************************************************************)
(* str helpers: str(int), int(str), str.split(":", 1).                     *)
(***************************************************************************)
Digits == <<"0", "1", "2", "3", "4", "5", "6", "7", "8", "9">>
DigitSet == {Digits[i] : i \in 1..10}
DigitValue(c) == (CHOOSE i \in 1..10 : Digits[i] = c) - 1

RECURSIVE NatToStr(_)
NatToStr(n) ==
    IF n < 10 THEN <<Digits[n + 1]>>
    ELSE NatToStr(n \div 10) \o <<Digits[(n % 10) + 1]>>

\* f"{org_id}" for an int
IntToStr(n) == IF n < 0 THEN <<"-">> \o NatToStr(-n) ELSE NatToStr(n)

RECURSIVE DigitsToNat(_)
DigitsToNat(s) ==
    IF s = <<>> THEN 0
    ELSE 10 * DigitsToNat(SubSeq(s, 1, Len(s) - 1)) + DigitValue(s[Len(s)])

AllDigits(s) == Len(s) > 0 /\ \A i \in 1..Len(s) : s[i] \in DigitSet

\* int(s) accepts an optional sign followed by digits (surrounding blanks and
\* "_" separators do not occur in the alphabet used here)
IsIntLiteral(s) ==
    IF Len(s) > 0 /\ s[1] \in {"-", "+"} THEN AllDigits(Tail(s)) ELSE AllDigits(s)

ParseInt(s) ==
    IF s[1] = "-" THEN 0 - DigitsToNat(Tail(s))
    ELSE IF s[1] = "+" THEN DigitsToNat(Tail(s))
    ELSE DigitsToNat(s)

\* key.split(":", 1): at most one split, at the first colon
Split1(key) ==
    IF \E i \in 1..Len(key) : key[i] = ":"
    THEN LET i == CHOOSE j \in 1..Len(key) :
                      key[j] = ":" /\ \A k \in 1..(j - 1) : key[k] # ":"
         IN  <<SubSeq(key, 1, i - 1), SubSeq(key, i + 1, Len(key))>>
    ELSE <<key>>

ValueError == [raised |-> "ValueError"]
Raised(r) == "raised" \in DOMAIN r

\* key.rsplit(":", 1): one split, at the last colon
RSplit1(key) ==
    IF \E i \in 1..Len(key) : key[i] = ":"
    THEN LET i == CHOOSE j \in 1..Len(key) :
                      key[j] = ":" /\ \A k \in (j + 1)..Len(key) : key[k] # ":"
         IN  <<SubSeq(key, 1, i - 1), SubSeq(key, i + 1, Len(key))>>
    ELSE <<key>>

\* from_string splitting at the last colon
KeyResult_from_string_LastColon(key, id) ==
    LET parts == RSplit1(key)
    IN  IF Len(parts) # 2 THEN ValueError
        ELSE IF ~IsIntLiteral(parts[1]) THEN ValueError
        ELSE KeyResult(ParseInt(parts[1]), parts[2], id)

\* KeyResult.from_string
KeyResult_from_string(key, id) ==
    LET parts == Split1(key)
    IN  IF Len(parts) # 2 THEN ValueError             \* org_id, string = ...
        ELSE IF ~IsIntLiteral(parts[1]) THEN ValueError \* int(org_id)
        ELSE KeyResult(ParseInt(parts[1]), parts[2], id)

\* UseCaseKeyResult.from_string
UseCaseKeyResult_from_string(key, id) ==
    LET parts == Split1(key)
    IN  IF Len(parts) # 3 THEN ValueError   \* use_case_id, org_id, string = ...
        ELSE IF ~IsIntLiteral(parts[2]) THEN ValueError
        ELSE UseCaseKeyResult(parts[1], ParseInt(parts[2]), parts[3], id)

\* f"{org_id}:{string}"
FormatKey(org_id, string) == IntToStr(org_id) \o <<":">> \o string

\* f"{use_case_id}:{s}"
FormatUseCaseKey(use_case_id, s) == use_case_id \o <<":">> \o s

(***************************************************************************)
(* KeyCollection.                                                          *)
(***************************************************************************)
RECURSIVE SumLens(_, _)
SumLens(mapping, orgs) ==
    IF orgs = {} THEN 0
    ELSE LET org_id == CHOOSE o \in orgs : TRUE
         IN  Cardinality(mapping[org_id]) + SumLens(mapping, orgs \ {org_id})

\* _size counting the orgs instead of their strings
KeyCollection_size_CountsOrgs(mapping) == Cardinality(DOMAIN mapping)

\* KeyCollection._size
KeyCollection_size(mapping) == SumLens(mapping, DOMAIN mapping)

\* KeyCollection.__init__
KeyCollection(mapping) == [mapping |-> mapping, size |-> KeyCollection_size(mapping)]

\* The (org_id, string) pairs of a mapping org_id -> set of strings
PairsOf(mapping) == UNION {{<<o, x>> : x \in mapping[o]} : o \in DOMAIN mapping}

\* The orders in which a set can be iterated
Perms(S) ==
    {p \in [1..Cardinality(S) -> S] : \A i, j \in 1..Cardinality(S) : p[i] = p[j] => i = j}

\* The iteration orders of a KeyCollection's mapping: the order of the dict's
\* keys and, for each org, the order of its set of strings.  An order is a
\* property of the object: every iteration of the same, unmodified dict or
\* set visits the elements in the same order.
IterOrders(mapping) ==
    [orgs : Perms(DOMAIN mapping),
     strs : {f \in [DOMAIN mapping -> UNION {Perms(mapping[o]) : o \in DOMAIN mapping}] :
                \A o \in DOMAIN mapping : f[o] \in Perms(mapping[o])}]

RECURSIVE TuplesFrom(_, _, _)
TuplesFrom(mapping, it, i) ==
    IF i > Len(it.orgs) THEN <<>>
    ELSE LET org_id == it.orgs[i]
         IN  [j \in 1..Len(it.strs[org_id]) |-> <<org_id, it.strs[org_id][j]>>]
                 \o TuplesFrom(mapping, it, i + 1)

\* KeyCollection.as_tuples, iterating in the order it
KeyCollection_as_tuples(kc, it) == TuplesFrom(kc.mapping, it, 1)

RECURSIVE StringsFrom(_, _, _)
StringsFrom(mapping, it, i) ==
    IF i > Len(it.orgs) THEN <<>>
    ELSE LET org_id == it.orgs[i]
         IN  [j \in 1..Len(it.strs[org_id]) |-> FormatKey(org_id, it.strs[org_id][j])]
                 \o StringsFrom(mapping, it, i + 1)

\* KeyCollection.as_strings, iterating in the order it
KeyCollection_as_strings(kc, it) == StringsFrom(kc.mapping, it, 1)

(***************************************************************************)
(* UseCaseKeyCollection.  The constructor takes, per use case, a raw       *)
(* mapping or a KeyCollection: an argument is [is_kc, keys].               *)
(***************************************************************************)
RECURSIVE SumSizes(_, _)
SumSizes(mapping, ucs) ==
    IF ucs = {} THEN 0
    ELSE LET u == CHOOSE x \in ucs : TRUE
         IN  mapping[u].size + SumSizes(mapping, ucs \ {u})

\* UseCaseKeyCollection._size
UseCaseKeyCollection_size(mapping) == SumSizes(mapping, DOMAIN mapping)

\* UseCaseKeyCollection.__init__
UseCaseKeyCollection(arg) ==
    LET mapping == [u \in DOMAIN arg |->
                       IF arg[u].is_kc THEN arg[u].keys ELSE KeyCollection(arg[u].keys)]
    IN  [mapping |-> mapping, size |-> UseCaseKeyCollection_size(mapping)]

\* The iteration orders of a UseCaseKeyCollection: the order of the use cases
\* and the orders of each KeyCollection
UseCaseIterOrders(mapping) ==
    [ucs : Perms(DOMAIN mapping),
     kcs : {f \in [DOMAIN mapping ->
                      UNION {IterOrders(mapping[u].mapping) : u \in DOMAIN mapping}] :
               \A u \in DOMAIN mapping : f[u] \in IterOrders(mapping[u].mapping)}]

RECURSIVE UseCaseTuplesFrom(_, _, _)
UseCaseTuplesFrom(mapping, it, i) ==
    IF i > Len(it.ucs) THEN <<>>
    ELSE LET use_case_id == it.ucs[i]
             inner == KeyCollection_as_tuples(mapping[use_case_id], it.kcs[use_case_id])
         IN  [j \in 1..Len(inner) |-> <<use_case_id, inner[j][1], inner[j][2]>>]
                 \o UseCaseTuplesFrom(mapping, it, i + 1)

\* UseCaseKeyCollection.as_tuples
UseCaseKeyCollection_as_tuples(ukc, it) == UseCaseTuplesFrom(ukc.mapping, it, 1)

RECURSIVE UseCaseStringsFrom(_, _, _)
UseCaseStringsFrom(mapping, it, i) ==
    IF i > Len(it.ucs) THEN <<>>
    ELSE LET use_case_id == it.ucs[i]
             inner == KeyCollection_as_strings(mapping[use_case_id], it.kcs[use_case_id])
         IN  [j \in 1..Len(inner) |-> FormatUseCaseKey(use_case_id, inner[j])]
                 \o UseCaseStringsFrom(mapping, it, i + 1)

\* UseCaseKeyCollection.as_strings
UseCaseKeyCollection_as_strings(ukc, it) == UseCaseStringsFrom(ukc.mapping, it, 1)

(***************************************************************************)
(* KeyResults.                                                             *)
(***************************************************************************)
\* KeyResults.__init__: two empty defaultdict(dict)
KeyResults_init == [results |-> EmptyDict, meta |-> EmptyDict]

\* An upsert that writes Metadata only for a truthy id
Upsert_NoMetaForNone(kr, key_result, fetch_type, fetch_type_ext) ==
    LET res  == Vivify(kr.results, key_result.org_id, EmptyDict)
        res2 == DictSet(res, key_result.org_id,
                        DictUpdate(res[key_result.org_id],
                                   DictSet(EmptyDict, key_result.string, key_result.id)))
        met  == Vivify(kr.meta, key_result.org_id, EmptyDict)
        met2 == DictSet(met, key_result.org_id,
                        DictSet(met[key_result.org_id], key_result.string,
                                Metadata(key_result.id, fetch_type, fetch_type_ext)))
    IN  [results |-> res2,
         meta    |-> IF fetch_type # NoFetchType /\ Truthy(key_result.id)
                     THEN met2 ELSE kr.meta]

\* An upsert that skips results when the id is None
Upsert_SkipsNoneId(kr, key_result, fetch_type, fetch_type_ext) ==
    LET res  == Vivify(kr.results, key_result.org_id, EmptyDict)
        res2 == DictSet(res, key_result.org_id,
                        DictUpdate(res[key_result.org_id],
                                   DictSet(EmptyDict, key_result.string, key_result.id)))
        met  == Vivify(kr.meta, key_result.org_id, EmptyDict)
        met2 == DictSet(met, key_result.org_id,
                        DictSet(met[key_result.org_id], key_result.string,
                                Metadata(key_result.id, fetch_type, fetch_type_ext)))
    IN  [results |-> IF key_result.id = None THEN kr.results ELSE res2,
         meta    |-> IF fetch_type # NoFetchType THEN met2 ELSE kr.meta]

\* An upsert that writes Metadata also when no fetch_type is given
Upsert_AlwaysMeta(kr, key_result, fetch_type, fetch_type_ext) ==
    LET res  == Vivify(kr.results, key_result.org_id, EmptyDict)
        res2 == DictSet(res, key_result.org_id,
                        DictUpdate(res[key_result.org_id],
                                   DictSet(EmptyDict, key_result.string, key_result.id)))
        met  == Vivify(kr.meta, key_result.org_id, EmptyDict)
        met2 == DictSet(met, key_result.org_id,
                        DictSet(met[key_result.org_id], key_result.string,
                                Metadata(key_result.id, fetch_type, fetch_type_ext)))
    IN  [results |-> res2, meta |-> met2]

\* An upsert that keeps the id a key already has (setdefault instead of update)
Upsert_FirstWins(kr, key_result, fetch_type, fetch_type_ext) ==
    LET res  == Vivify(kr.results, key_result.org_id, EmptyDict)
        res2 == DictSet(res, key_result.org_id,
                        DictUpdate(DictSet(EmptyDict, key_result.string, key_result.id),
                                   res[key_result.org_id]))
        met  == Vivify(kr.meta, key_result.org_id, EmptyDict)
        met2 == DictSet(met, key_result.org_id,
                        DictSet(met[key_result.org_id], key_result.string,
                                Metadata(key_result.id, fetch_type, fetch_type_ext)))
    IN  [results |-> res2,
         meta    |-> IF fetch_type # NoFetchType THEN met2 ELSE kr.meta]

\* An upsert that writes the id of the string into every org the accumulator
\* holds (one string -> id dict shared by the orgs)
Upsert_SharedStrings(kr, key_result, fetch_type, fetch_type_ext) ==
    LET res  == Vivify(kr.results, key_result.org_id, EmptyDict)
        res2 == [o \in DOMAIN res |->
                    DictUpdate(res[o], DictSet(EmptyDict, key_result.string, key_result.id))]
        met  == Vivify(kr.meta, key_result.org_id, EmptyDict)
        met2 == DictSet(met, key_result.org_id,
                        DictSet(met[key_result.org_id], key_result.string,
                                Metadata(key_result.id, fetch_type, fetch_type_ext)))
    IN  [results |-> res2,
         meta    |-> IF fetch_type # NoFetchType THEN met2 ELSE kr.meta]

\* One upsert, the body shared by add_key_result and the loop of
\* add_key_results: results[org_id].update({string: id}) and, when a
\* fetch_type is given, meta[org_id][string] = Metadata(...)
Upsert(kr, key_result, fetch_type, fetch_type_ext) ==
    LET res  == Vivify(kr.results, key_result.org_id, EmptyDict)
        res2 == DictSet(res, key_result.org_id,
                        DictUpdate(res[key_result.org_id],
                                   DictSet(EmptyDict, key_result.string, key_result.id)))
        met  == Vivify(kr.meta, key_result.org_id, EmptyDict)
        met2 == DictSet(met, key_result.org_id,
                        DictSet(met[key_result.org_id], key_result.string,
                                Metadata(key_result.id, fetch_type, fetch_type_ext)))
    IN  [results |-> res2,
         meta    |-> IF fetch_type # NoFetchType THEN met2 ELSE kr.meta]

\* KeyResults.add_key_result
KeyResults_add_key_result(kr, key_result, fetch_type, fetch_type_ext) ==
    Upsert(kr, key_result, fetch_type, fetch_type_ext)

\* KeyResults.add_key_results
RECURSIVE KeyResults_add_key_results(_, _, _, _)
KeyResults_add_key_results(kr, key_results, fetch_type, fetch_type_ext) ==
    IF key_results = <<>> THEN kr
    ELSE KeyResults_add_key_results(
             Upsert(kr, Head(key_results), fetch_type, fetch_type_ext),
             Tail(key_results), fetch_type, fetch_type_ext)

\* __getitem__ on a plain dict: KeyError for a missing org
KeyResults_getitem_PlainDict(kr, org_id) ==
    [ret |-> IF org_id \in DOMAIN kr.results THEN kr.results[org_id]
             ELSE [raised |-> "KeyError"],
     self |-> kr]

\* KeyResults.__getitem__: the value returned and the accumulator afterwards
\* (the read of a defaultdict inserts the missing org)
KeyResults_getitem(kr, org_id) ==
    LET res == Vivify(kr.results, org_id, EmptyDict)
    IN  [ret |-> res[org_id], self |-> [kr EXCEPT !.results = res]]

\* get_unmapped_keys taking "key absent" instead of "id falsy" for unresolved
KeyResults_get_unmapped_keys_AbsentOnly(kr, keys) ==
    LET read == {o \in DOMAIN keys.mapping : keys.mapping[o] # {}}
        res  == [o \in DOMAIN kr.results \cup read |->
                    IF o \in DOMAIN kr.results THEN kr.results[o] ELSE EmptyDict]
        un(o) == {s \in keys.mapping[o] : s \notin DOMAIN res[o]}
        unmapped_org_strings == [o \in {x \in read : un(x) # {}} |-> un(o)]
    IN  [ret |-> KeyCollection(unmapped_org_strings),
         self |-> [kr EXCEPT !.results = res]]

\* get_unmapped_keys without the "not": it returns the mapped keys
KeyResults_get_unmapped_keys_Mapped(kr, keys) ==
    LET read == {o \in DOMAIN keys.mapping : keys.mapping[o] # {}}
        res  == [o \in DOMAIN kr.results \cup read |->
                    IF o \in DOMAIN kr.results THEN kr.results[o] ELSE EmptyDict]
        un(o) == {s \in keys.mapping[o] : Truthy(DictGet(res[o], s))}
        unmapped_org_strings == [o \in {x \in read : un(x) # {}} |-> un(o)]
    IN  [ret |-> KeyCollection(unmapped_org_strings),
         self |-> [kr EXCEPT !.results = res]]

\* KeyResults.get_unmapped_keys: the collection returned and the accumulator
\* afterwards (self.results[org_id] is read for every string of keys)
KeyResults_get_unmapped_keys(kr, keys) ==
    LET read == {o \in DOMAIN keys.mapping : keys.mapping[o] # {}}
        res  == [o \in DOMAIN kr.results \cup read |->
                    IF o \in DOMAIN kr.results THEN kr.results[o] ELSE EmptyDict]
        un(o) == {s \in keys.mapping[o] : ~Truthy(DictGet(res[o], s))}
        unmapped_org_strings == [o \in {x \in read : un(x) # {}} |-> un(o)]
    IN  [ret |-> KeyCollection(unmapped_org_strings),
         self |-> [kr EXCEPT !.results = res]]

\* merge writing self.results before other.results, so that other's ids win
KeyResults_merge_OtherIdsWin(self, other) ==
    LET from(d, o) == IF o \in DOMAIN d THEN d[o] ELSE EmptyDict
    IN  [results |-> [o \in DOMAIN other.results \cup DOMAIN self.results |->
                         DictUpdate(from(self.results, o), from(other.results, o))],
         meta    |-> [o \in DOMAIN self.meta \cup DOMAIN other.meta |->
                         DictUpdate(from(self.meta, o), from(other.meta, o))]]

\* merge assigning results[org_id] = strings instead of updating it, so that
\* the org's entries of self replace those of other
KeyResults_merge_ReplacesOrg(self, other) ==
    LET from(d, o) == IF o \in DOMAIN d THEN d[o] ELSE EmptyDict
    IN  [results |-> [o \in DOMAIN other.results \cup DOMAIN self.results |->
                         IF o \in DOMAIN self.results THEN self.results[o]
                         ELSE other.results[o]],
         meta    |-> [o \in DOMAIN self.meta \cup DOMAIN other.meta |->
                         DictUpdate(from(self.meta, o), from(other.meta, o))]]

\* merge skipping the entries of other.results whose id is None
KeyResults_merge_SkipsOtherNone(self, other) ==
    LET from(d, o) == IF o \in DOMAIN d THEN d[o] ELSE EmptyDict
        resolved(d) == [s \in {x \in DOMAIN d : d[x] # None} |-> d[s]]
    IN  [results |-> [o \in DOMAIN other.results \cup DOMAIN self.results |->
                         DictUpdate(resolved(from(other.results, o)),
                                    from(self.results, o))],
         meta    |-> [o \in DOMAIN self.meta \cup DOMAIN other.meta |->
                         DictUpdate(from(self.meta, o), from(other.meta, o))]]

\* KeyResults.merge: other.results then self.results are written into a new
\* accumulator, then self.meta and then other.meta
KeyResults_merge(self, other) ==
    LET from(d, o) == IF o \in DOMAIN d THEN d[o] ELSE EmptyDict
    IN  [results |-> [o \in DOMAIN other.results \cup DOMAIN self.results |->
                         DictUpdate(from(other.results, o), from(self.results, o))],
         meta    |-> [o \in DOMAIN self.meta \cup DOMAIN other.meta |->
                         DictUpdate(from(self.meta, o), from(other.meta, o))]]

\* get_mapped_results without the filter on len(v)
KeyResults_get_mapped_results_Unfiltered(kr) == kr.results

\* KeyResults.get_mapped_results
KeyResults_get_mapped_results(kr) ==
    [k \in {o \in DOMAIN kr.results : Cardinality(DOMAIN kr.results[o]) > 0} |->
        kr.results[k]]

\* get_mapped_key_strings_to_ints testing "if id" instead of "if id is not None"
KeyResults_get_mapped_key_strings_to_ints_Truthy(kr) ==
    LET pairs == {p \in PairsOf([o \in DOMAIN kr.results |-> DOMAIN kr.results[o]]) :
                     Truthy(kr.results[p[1]][p[2]])}
    IN  [key \in {FormatKey(p[1], p[2]) : p \in pairs} |->
            LET p == CHOOSE q \in pairs : FormatKey(q[1], q[2]) = key
            IN  kr.results[p[1]][p[2]]]

\* KeyResults.get_mapped_key_strings_to_ints
KeyResults_get_mapped_key_strings_to_ints(kr) ==
    LET pairs == {p \in PairsOf([o \in DOMAIN kr.results |-> DOMAIN kr.results[o]]) :
                     kr.results[p[1]][p[2]] # None}
    IN  [key \in {FormatKey(p[1], p[2]) : p \in pairs} |->
            LET p == CHOOSE q \in pairs : FormatKey(q[1], q[2]) = key
            IN  kr.results[p[1]][p[2]]]

(***************************************************************************)
(* UseCaseKeyResults.  Its results dict maps a use case to a KeyResults     *)
(* object.  The objects live in a heap, a dict from references to values,   *)
(* so that two dicts can hold the same object; the reference of an object   *)
(* names the UseCaseKeyResults that created it and the use case it was      *)
(* created for.  id is the identity of a UseCaseKeyResults, results_type    *)
(* tells a defaultdict, which inserts a new KeyResults for a missing key,   *)
(* from a plain dict, which raises KeyError.                                *)
(***************************************************************************)
DefaultDict == "defaultdict"
PlainDict == "dict"

\* UseCaseKeyResults.__init__, of the object id
UseCaseKeyResults_init(id) ==
    [id |-> id, results |-> EmptyDict, results_type |-> DefaultDict]

\* self.results[use_case_id]: the reference found or inserted, the heap and
\* the accumulator afterwards; KeyError for a key missing in a plain dict
UseCaseResultsLookup(hp, ukr, use_case_id) ==
    IF use_case_id \in DOMAIN ukr.results
    THEN [ref |-> ukr.results[use_case_id], heap |-> hp, self |-> ukr]
    ELSE IF ukr.results_type = DefaultDict
    THEN [ref |-> <<ukr.id, use_case_id>>,
          heap |-> DictSet(hp, <<ukr.id, use_case_id>>, KeyResults_init),
          self |-> [ukr EXCEPT !.results =
                       DictSet(@, use_case_id, <<ukr.id, use_case_id>>)]]
    ELSE [raised |-> "KeyError", heap |-> hp, self |-> ukr]

\* UseCaseKeyResults.add_use_case_key_result
UseCaseKeyResults_add_use_case_key_result(hp, ukr, use_case_key_result, fetch_type, fetch_type_ext) ==
    LET l == UseCaseResultsLookup(hp, ukr, use_case_key_result.use_case_id)
    IN  IF Raised(l) THEN l
        ELSE [heap |-> [l.heap EXCEPT ![l.ref] =
                           KeyResults_add_key_result(
                               @, KeyResult(use_case_key_result.org_id,
                                            use_case_key_result.string,
                                            use_case_key_result.id),
                               fetch_type, fetch_type_ext)],
              self |-> l.self]

\* The length of the first group groupby yields for a non-empty sequence:
\* the longest prefix whose elements have the use case of the first one
FirstRunLen(use_case_key_results) ==
    CHOOSE n \in 1..Len(use_case_key_results) :
        /\ \A i \in 1..n :
              use_case_key_results[i].use_case_id = use_case_key_results[1].use_case_id
        /\ n < Len(use_case_key_results)
              => use_case_key_results[n + 1].use_case_id
                     # use_case_key_results[1].use_case_id

\* add_use_case_key_results that handles only the first group of a use case
\* (the groups taken for the values of a dict keyed by use case)
RECURSIVE AddFirstRuns(_, _, _, _, _, _)
AddFirstRuns(hp, ukr, use_case_key_results, fetch_type, fetch_type_ext, seen) ==
    IF use_case_key_results = <<>> THEN [heap |-> hp, self |-> ukr]
    ELSE LET use_case == use_case_key_results[1].use_case_id
             n == FirstRunLen(use_case_key_results)
             grouped == SubSeq(use_case_key_results, 1, n)
             rest == SubSeq(use_case_key_results, n + 1, Len(use_case_key_results))
             l == UseCaseResultsLookup(hp, ukr, use_case)
         IN  IF use_case \in seen
             THEN AddFirstRuns(hp, ukr, rest, fetch_type, fetch_type_ext, seen)
             ELSE IF Raised(l) THEN l
             ELSE AddFirstRuns(
                      [l.heap EXCEPT ![l.ref] =
                          KeyResults_add_key_results(
                              @, [i \in 1..n |-> KeyResult(grouped[i].org_id,
                                                           grouped[i].string,
                                                           grouped[i].id)],
                              fetch_type, fetch_type_ext)],
                      l.self, rest, fetch_type, fetch_type_ext, seen \cup {use_case})

UseCaseKeyResults_add_use_case_key_results_FirstRuns(hp, ukr, use_case_key_results, fetch_type, fetch_type_ext) ==
    AddFirstRuns(hp, ukr, use_case_key_results, fetch_type, fetch_type_ext, {})

\* UseCaseKeyResults.add_use_case_key_results: groupby yields the maximal
\* runs of consecutive elements with the same use case, in order; for each,
\* self.results[use_case] is looked up once and add_key_results is called
\* with the KeyResults of the run
RECURSIVE UseCaseKeyResults_add_use_case_key_results(_, _, _, _, _)
UseCaseKeyResults_add_use_case_key_results(hp, ukr, use_case_key_results, fetch_type, fetch_type_ext) ==
    IF use_case_key_results = <<>> THEN [heap |-> hp, self |-> ukr]
    ELSE LET use_case == use_case_key_results[1].use_case_id
             n == FirstRunLen(use_case_key_results)
             grouped == SubSeq(use_case_key_results, 1, n)
             rest == SubSeq(use_case_key_results, n + 1, Len(use_case_key_results))
             l == UseCaseResultsLookup(hp, ukr, use_case)
         IN  IF Raised(l) THEN l
             ELSE UseCaseKeyResults_add_use_case_key_results(
                      [l.heap EXCEPT ![l.ref] =
                          KeyResults_add_key_results(
                              @, [i \in 1..n |-> KeyResult(grouped[i].org_id,
                                                           grouped[i].string,
                                                           grouped[i].id)],
                              fetch_type, fetch_type_ext)],
                      l.self, rest, fetch_type, fetch_type_ext)

\* add_use_case_key_result called for each element of a sequence, in order;
\* a call that raises ends the sequence
RECURSIVE AddEach(_, _, _, _, _)
AddEach(hp, ukr, use_case_key_results, fetch_type, fetch_type_ext) ==
    IF use_case_key_results = <<>> THEN [heap |-> hp, self |-> ukr]
    ELSE LET c == UseCaseKeyResults_add_use_case_key_result(
                      hp, ukr, Head(use_case_key_results), fetch_type, fetch_type_ext)
         IN  IF Raised(c) THEN c
             ELSE AddEach(c.heap, c.self, Tail(use_case_key_results),
                          fetch_type, fetch_type_ext)

\* UseCaseKeyResults.__getitem__: ret is the reference of the KeyResults
UseCaseKeyResults_getitem(hp, ukr, use_case_id) ==
    LET l == UseCaseResultsLookup(hp, ukr, use_case_id)
    IN  IF Raised(l) THEN l
        ELSE [ret |-> l.ref, heap |-> l.heap, self |-> l.self]

\* The (use_case_id, key) entries get_mapped_strings_to_ints iterates over
MappedEntries(hp, ukr) ==
    UNION {{<<u, k>> : k \in DOMAIN KeyResults_get_mapped_key_strings_to_ints(
                                        hp[ukr.results[u]])} :
              u \in DOMAIN ukr.results}

\* get_mapped_strings_to_ints without the use case in the key
UseCaseKeyResults_get_mapped_strings_to_ints_NoPrefix(hp, ukr) ==
    LET entries == MappedEntries(hp, ukr)
    IN  [key \in {e[2] : e \in entries} |->
            LET e == CHOOSE x \in entries : x[2] = key
            IN  KeyResults_get_mapped_key_strings_to_ints(hp[ukr.results[e[1]]])[e[2]]]

\* UseCaseKeyResults.get_mapped_strings_to_ints (were two entries to format
\* to the same key, the dict would keep the one iterated last)
UseCaseKeyResults_get_mapped_strings_to_ints(hp, ukr) ==
    LET entries == MappedEntries(hp, ukr)
    IN  [key \in {FormatUseCaseKey(e[1], e[2]) : e \in entries} |->
            LET e == CHOOSE x \in entries : FormatUseCaseKey(x[1], x[2]) = key
            IN  KeyResults_get_mapped_key_strings_to_ints(hp[ukr.results[e[1]]])[e[2]]]

\* merge_use_case for the use cases of ucs: a use case of both sides gets a
\* new KeyResults, the merge of the two, created by the object id; a use
\* case of one side gets the object of that side
RECURSIVE MergeUseCases(_, _, _, _, _)
MergeUseCases(hp, self, other, ucs, id) ==
    IF ucs = {} THEN [heap |-> hp, results |-> EmptyDict]
    ELSE LET u == CHOOSE x \in ucs : TRUE
             rest == MergeUseCases(hp, self, other, ucs \ {u}, id)
         IN  IF u \in DOMAIN self.results /\ u \in DOMAIN other.results
             THEN [heap |-> DictSet(rest.heap, <<id, u>>,
                                    KeyResults_merge(hp[self.results[u]],
                                                     hp[other.results[u]])),
                   results |-> DictSet(rest.results, u, <<id, u>>)]
             ELSE IF u \in DOMAIN self.results
             THEN [heap |-> rest.heap,
                   results |-> DictSet(rest.results, u, self.results[u])]
             ELSE [heap |-> rest.heap,
                   results |-> DictSet(rest.results, u, other.results[u])]

\* merge keeping, for a use case of both sides, the KeyResults of other
UseCaseKeyResults_merge_OtherReplaces(hp, self, other, id) ==
    [ret |-> [id |-> id, results |-> DictUpdate(self.results, other.results),
              results_type |-> PlainDict],
     heap |-> hp]

\* UseCaseKeyResults.merge, returning the new object id: its results is
\* assigned a plain dict
UseCaseKeyResults_merge(hp, self, other, id) ==
    LET m == MergeUseCases(hp, self, other,
                           DOMAIN self.results \cup DOMAIN other.results, id)
    IN  [ret |-> [id |-> id, results |-> m.results, results_type |-> PlainDict],
         heap |-> m.heap]

(***************************************************************************)
\* The comprehension of get_unmapped_use_case_keys from the i-th use case of
\* the collection on, the use cases being iterated in the order given: each
\* is looked up in self.results, its KeyResults is asked for the unmapped
\* keys, and the answer is kept when its size is positive.  A KeyError ends
\* the comprehension, the reads made before it stay made.
RECURSIVE UnmappedUseCases(_, _, _, _, _)
UnmappedUseCases(hp, ukr, mapping, order, i) ==
    IF i > Len(order) THEN [heap |-> hp, self |-> ukr, unmapped |-> EmptyDict]
    ELSE LET use_case_id == order[i]
             l == UseCaseResultsLookup(hp, ukr, use_case_id)
         IN  IF Raised(l) THEN l
             ELSE LET r == KeyResults_get_unmapped_keys(l.heap[l.ref], mapping[use_case_id])
                      rest == UnmappedUseCases([l.heap EXCEPT ![l.ref] = r.self],
                                               l.self, mapping, order, i + 1)
                  IN  IF Raised(rest) THEN rest
                      ELSE [heap |-> rest.heap, self |-> rest.self,
                            unmapped |-> IF r.ret.size > 0
                                         THEN DictSet(rest.unmapped, use_case_id, r.ret)
                                         ELSE rest.unmapped]

\* UseCaseKeyResults.get_unmapped_use_case_keys, the mapping of the
\* collection being iterated in the order given: the collection returned,
\* the heap and the accumulator afterwards, or the KeyError raised
UseCaseKeyResults_get_unmapped_use_case_keys(hp, ukr, use_case_key_collection, order) ==
    LET c == UnmappedUseCases(hp, ukr, use_case_key_collection.mapping, order, 1)
    IN  IF Raised(c) THEN c
        ELSE [ret |-> UseCaseKeyCollection(
                          [u \in DOMAIN c.unmapped |->
                              [is_kc |-> TRUE, keys |-> c.unmapped[u]]]),
              heap |-> c.heap, self |-> c.self]

(* State.                                                                  *)
(*   acc      the KeyResults objects of a run, by name                     *)
(*   last     the last call made on them: its name, arguments and result   *)
(*   nadds    the number of key results written so far                     *)
(*   nmerges  the number of merge calls so far                             *)
(*   ukc      a UseCaseKeyCollection                                       *)
(*   it       the iteration order of ukc's dicts and sets                  *)
(*   kcall    the last call made on ukc or on a from_string factory        *)
(*   pc       the position of a bulk_record call in its pipeline           *)
(*   batch    the KeyCollection built from the call's org_strings          *)
(*   pending  the KeyCollection handed to the next stage                   *)
(*   handed   the KeyCollection each stage run so far was handed           *)
(*   recorded the KeyResults each stage run so far has produced            *)
(*   total    the running total the stage results are merged into          *)
(*   store    the collaborators: persistent rows, cache, rate limiter      *)
(*   inst     the indexer instances that run the creation stage on store   *)
(*   log      the writes made so far by add_key_result and add_key_results *)
(*            in a run that records them: <<key_result, fetch_type,        *)
(*            fetch_type_ext>>, one entry per key result                   *)
(*   heap     the KeyResults objects held by the UseCaseKeyResults of a    *)
(*            run, by reference                                            *)
(*   uacc     the UseCaseKeyResults objects of a run, by name              *)
(*   ulast    the last call made on them                                   *)
(***************************************************************************)
VARIABLES acc, last, nadds, nmerges, ukc, it, kcall,
          pc, batch, pending, handed, recorded, total, store, inst,
          log, heap, uacc, ulast

accVars == <<acc, last, nadds, nmerges, log>>
keyVars == <<ukc, it, kcall>>
pipeVars == <<pc, batch, pending, handed, recorded, total, store>>
ucVars == <<heap, uacc, ulast>>
vars == <<acc, last, nadds, nmerges, ukc, it, kcall,
          pc, batch, pending, handed, recorded, total, store, inst,
          log, heap, uacc, ulast>>

NoCall == [op |-> "none"]

\* The accumulators of a run: A, B and C are written, M is the value of a merge
AccNames == {"A", "B", "C", "M"}
MergeNames == {"A", "B", "M"}

\* Arguments of the calls.  A pipeline stage writes the ids it has found (or
\* None), without a fetch type or with its own one: A is the accumulator of
\* the static-string stage (its strings are the global ones), B that of the
\* database read, which finds other ids for the same keys.
MetaArgs(x) ==
    IF x = "A" THEN {<<NoFetchType, NoExt>>, <<HARDCODED, FetchTypeExt(TRUE)>>}
               ELSE {<<NoFetchType, NoExt>>, <<DB_READ, NoExt>>}
KeyResultArgs(x) ==
    {KeyResult(o, s, i) : o \in Orgs, s \in Strs,
                          i \in IF x = "A" THEN {None, 10} ELSE {None, 20}}
QueryMetaArgs == {<<NoFetchType, NoExt>>, <<RATE_LIMITED, NoExt>>}
QueryKeyResultArgs == {KeyResult(o, s, i) : o \in Orgs, s \in Strs, i \in {None, 0, 10}}
WriteMetaArgs ==
    {<<NoFetchType, NoExt>>, <<DB_READ, NoExt>>, <<HARDCODED, FetchTypeExt(TRUE)>>}
KeyMappings ==
    UNION {[os -> SUBSET Strs] : os \in SUBSET Orgs}

\* Arguments of the key containers: use cases, orgs and strings (a string may
\* hold colons), raw mappings and pre-built KeyCollections
UseCases == {<<"p">>, <<"s">>}
KeyOrgs == {1, 10}
KeyStrs == {<<"a">>, <<":", "b">>}
KeyArgMappings == UNION {[os -> SUBSET KeyStrs] : os \in SUBSET KeyOrgs}
KeyArgs ==
    {[is_kc |-> FALSE, keys |-> m] : m \in KeyArgMappings}
        \cup {[is_kc |-> TRUE, keys |-> KeyCollection(m)] : m \in KeyArgMappings}
UseCaseKeyArgs == UNION {[us -> KeyArgs] : us \in SUBSET UseCases}
RawUseCaseKeyArgs ==
    {[u \in {<<"p">>} |-> [is_kc |-> FALSE, keys |-> m]] : m \in KeyArgMappings}

\* Arguments of the calls on accumulators that are read: A is written with
\* the ids None and 0 for the string "a" of both orgs, B with the ids None
\* and 10 for both strings of org 10
ReadNames == {"A", "M"}
ReadKeyResultArgs(x) ==
    IF x = "A" THEN {KeyResult(o, <<"a">>, i) : o \in KeyOrgs, i \in {None, 0}}
               ELSE {KeyResult(10, s, i) : s \in KeyStrs, i \in {None, 10}}
ReadMetaArgs(x) == IF x = "A" THEN <<CACHE_HIT, NoExt>> ELSE <<DB_READ, NoExt>>
ReadKeyMappings == {[o \in {1} |-> {<<"a">>}], [o \in {10} |-> {<<"a">>, <<":", "b">>}]}

\* Arguments of the calls on UseCaseKeyResults: A is the accumulator of the
\* cache stage and holds the ids None and 5 for both use cases, B that of
\* the database read and holds the ids 0 and 6 for the use case "s"; a use
\* case id is an identifier, it holds no colon
UseCaseOrgs == {1}
UseCaseStrs == {<<"x">>, <<":", "y">>}
UseCaseKeyResultArgs(x) ==
    {UseCaseKeyResult(u, o, s, i) :
        u \in IF x = "A" THEN UseCases ELSE {<<"s">>},
        o \in UseCaseOrgs, s \in UseCaseStrs,
        i \in IF x = "A" THEN {None, 5} ELSE {0, 6}}

\* Arguments of the calls on a merged UseCaseKeyResults: the key results
\* written to it, and the collections it is asked about
StageKeyResultArgs(x) ==
    IF x = "A" THEN {UseCaseKeyResult(u, 1, <<"x">>, i) : u \in UseCases, i \in {None, 5}}
               ELSE {UseCaseKeyResult(<<"s">>, 1, <<"x">>, i) : i \in {0, 6}}
MergedKeyResultArgs ==
    {UseCaseKeyResult(u, 1, <<"x">>, 7) : u \in UseCases}
UnmappedUseCaseArgs ==
    {[u \in us |-> [is_kc |-> TRUE, keys |-> KeyCollection([o \in {1} |-> {<<"x">>}])]] :
        us \in {{<<"p">>}, UseCases}}

\* Arguments of add_use_case_key_results: sequences of key results of two
\* use cases that hold the same key, with an id or None
BulkKeyResultArgs ==
    {UseCaseKeyResult(u, 1, <<"x">>, i) : u \in UseCases, i \in {None, 5}}
        \cup {UseCaseKeyResult(<<"p">>, 1, <<":", "y">>, 6)}
BulkSeqs == UNION {[1..n -> BulkKeyResultArgs] : n \in 0..MaxBulkLen}

\* The accumulators of three stages that are merged: A, B and C hold the
\* keys of one org, each with its own id or None and with its own fetch type
\* or none; B may have been read for another org
AssocKeyResultArgs(x) ==
    {KeyResult(1, s, i) :
        s \in Strs,
        i \in {None, IF x = "A" THEN 10 ELSE IF x = "B" THEN 20 ELSE 30}}
AssocMetaArgs(x) ==
    {<<NoFetchType, NoExt>>,
     IF x = "A" THEN <<HARDCODED, FetchTypeExt(TRUE)>>
     ELSE IF x = "B" THEN <<DB_READ, NoExt>> ELSE <<FIRST_SEEN, NoExt>>}

\* The KeyResults that at most n calls of add_key_result build
RECURSIVE WrittenBy(_, _)
WrittenBy(x, n) ==
    IF n = 0 THEN {KeyResults_init}
    ELSE LET prev == WrittenBy(x, n - 1)
         IN  prev \cup {KeyResults_add_key_result(kr, k, m[1], m[2]) :
                           kr \in prev, k \in AssocKeyResultArgs(x),
                           m \in AssocMetaArgs(x)}

\* WrittenBy(x, n), and for B also after the read B[2]
AssocInputs(x) ==
    IF x = "B"
    THEN WrittenBy(x, MaxAssocWrites)
             \cup {KeyResults_getitem(kr, 2).self : kr \in WrittenBy(x, MaxAssocWrites)}
    ELSE WrittenBy(x, MaxAssocWrites)

\* Arguments of the from_string factories
ParseChars == {"a", ":", "1"}
ParseStrs == UNION {[1..n -> ParseChars] : n \in 0..MaxStrLen}
ParseOrgs == (0 - MaxParseOrg)..MaxParseOrg
ParseIds == {0, 10}

AccInit ==
    /\ acc = [x \in AccNames |-> KeyResults_init]
    /\ last = NoCall
    /\ nadds = 0
    /\ nmerges = 0
    /\ log = <<>>

PipeIdle ==
    /\ pc = "idle"
    /\ batch = KeyCollection(EmptyDict)
    /\ pending = KeyCollection(EmptyDict)
    /\ handed = EmptyDict
    /\ recorded = EmptyDict
    /\ total = KeyResults_init
    /\ store = [rows |-> {}]
    /\ inst = EmptyDict

KeysIdle ==
    /\ ukc = UseCaseKeyCollection(EmptyDict)
    /\ it = [ucs |-> <<>>, kcs |-> EmptyDict]
    /\ kcall = NoCall

UseCaseIdle ==
    /\ heap = EmptyDict
    /\ uacc = [x \in AccNames |-> UseCaseKeyResults_init(x)]
    /\ ulast = NoCall

\* x.add_key_result(key_result, fetch_type, fetch_type_ext)
AddKeyResult(x, key_result, fetch_type, fetch_type_ext) ==
    /\ nadds < MaxAdds
    /\ acc' = [acc EXCEPT ![x] =
                  KeyResults_add_key_result(@, key_result, fetch_type, fetch_type_ext)]
    /\ last' = [op |-> "add_key_result", self |-> x]
    /\ nadds' = nadds + 1
    /\ UNCHANGED nmerges

\* x.add_key_results([k1, k2], fetch_type, fetch_type_ext)
AddKeyResults(x, key_results, fetch_type, fetch_type_ext) ==
    /\ nadds + Len(key_results) <= MaxAdds
    /\ acc' = [acc EXCEPT ![x] =
                  KeyResults_add_key_results(@, key_results, fetch_type, fetch_type_ext)]
    /\ last' = [op |-> "add_key_results", self |-> x]
    /\ nadds' = nadds + Len(key_results)
    /\ UNCHANGED nmerges

\* x[org_id]
GetItem(x, org_id) ==
    LET r == KeyResults_getitem(acc[x], org_id)
    IN  /\ acc' = [acc EXCEPT ![x] = r.self]
        /\ last' = [op |-> "getitem", self |-> x, org_id |-> org_id,
                    known |-> org_id \in DOMAIN acc[x].results, ret |-> r.ret]
        /\ UNCHANGED <<nadds, nmerges>>

\* x.get_unmapped_keys(KeyCollection(mapping))
GetUnmappedKeys(x, mapping) ==
    LET keys == KeyCollection(mapping)
        r == KeyResults_get_unmapped_keys(acc[x], keys)
    IN  /\ acc' = [acc EXCEPT ![x] = r.self]
        /\ last' = [op |-> "get_unmapped_keys", self |-> x, before |-> acc[x],
                    keys |-> keys, ret |-> r.ret]
        /\ UNCHANGED <<nadds, nmerges>>

\* (A.merge(B)).merge(C) and A.merge(B.merge(C))
MergeThree ==
    /\ last = NoCall
    /\ last' = [op |-> "merge_three",
                left |-> KeyResults_merge(KeyResults_merge(acc["A"], acc["B"]), acc["C"]),
                right |-> KeyResults_merge(acc["A"], KeyResults_merge(acc["B"], acc["C"]))]
    /\ UNCHANGED <<acc, nadds, nmerges>>

\* A.merge(B) and B.merge(A)
MergeBothOrders ==
    /\ last = NoCall
    /\ last' = [op |-> "merge_both_orders",
                ab |-> KeyResults_merge(acc["A"], acc["B"]),
                ba |-> KeyResults_merge(acc["B"], acc["A"])]
    /\ UNCHANGED <<acc, nadds, nmerges>>

\* x.get_mapped_results()
GetMappedResults(x) ==
    /\ last' = [op |-> "get_mapped_results", self |-> x,
                ret |-> KeyResults_get_mapped_results(acc[x])]
    /\ UNCHANGED <<acc, nadds, nmerges>>

\* x.get_mapped_key_strings_to_ints()
GetMappedKeyStringsToInts(x) ==
    /\ last' = [op |-> "get_mapped_key_strings_to_ints", self |-> x,
                ret |-> KeyResults_get_mapped_key_strings_to_ints(acc[x])]
    /\ UNCHANGED <<acc, nadds, nmerges>>

\* M = x.merge(y)
Merge(x, y) ==
    /\ nmerges < MaxMerges
    /\ acc' = [acc EXCEPT !["M"] = KeyResults_merge(acc[x], acc[y])]
    /\ last' = [op |-> "merge", self |-> acc[x], other |-> acc[y],
                ret |-> KeyResults_merge(acc[x], acc[y])]
    /\ nmerges' = nmerges + 1
    /\ UNCHANGED nadds

(***************************************************************************)
(* The calls on UseCaseKeyResults.                                         *)
(***************************************************************************)
\* The KeyResults a UseCaseKeyResults holds, by use case
Deref(hp, ukr) == [u \in DOMAIN ukr.results |-> hp[ukr.results[u]]]

\* x.add_use_case_key_result(use_case_key_result, fetch_type, fetch_type_ext)
AddUseCaseKeyResult(x, use_case_key_result, fetch_type, fetch_type_ext) ==
    LET c == UseCaseKeyResults_add_use_case_key_result(
                 heap, uacc[x], use_case_key_result, fetch_type, fetch_type_ext)
    IN  /\ nadds < MaxAdds
        /\ heap' = c.heap
        /\ uacc' = [uacc EXCEPT ![x] = c.self]
        /\ ulast' = [op |-> "add_use_case_key_result", self |-> x,
                     raised |-> Raised(c)]
        /\ nadds' = nadds + 1
        /\ UNCHANGED <<acc, last, nmerges, log>>

\* x.add_use_case_key_results(use_case_key_results, fetch_type,
\* fetch_type_ext); each is what x would hold had add_use_case_key_result
\* been called for every element instead
AddUseCaseKeyResults(x, use_case_key_results, fetch_type, fetch_type_ext) ==
    LET c == UseCaseKeyResults_add_use_case_key_results(
                 heap, uacc[x], use_case_key_results, fetch_type, fetch_type_ext)
        e == AddEach(heap, uacc[x], use_case_key_results, fetch_type, fetch_type_ext)
    IN  /\ nadds + Len(use_case_key_results) <= MaxBulkLen
        /\ heap' = c.heap
        /\ uacc' = [uacc EXCEPT ![x] = c.self]
        /\ ulast' = [op |-> "add_use_case_key_results", self |-> x,
                     arg |-> use_case_key_results, fetch_type |-> fetch_type,
                     raised |-> Raised(c),
                     each |-> [raised |-> Raised(e), held |-> Deref(e.heap, e.self)]]
        /\ nadds' = nadds + Len(use_case_key_results)
        /\ UNCHANGED <<acc, last, nmerges, log>>

\* x[use_case_id]
UseCaseGetItem(x, use_case_id) ==
    LET c == UseCaseKeyResults_getitem(heap, uacc[x], use_case_id)
    IN  /\ heap' = c.heap
        /\ uacc' = [uacc EXCEPT ![x] = c.self]
        /\ ulast' = [op |-> "getitem", self |-> x, use_case_id |-> use_case_id,
                     known |-> use_case_id \in DOMAIN uacc[x].results,
                     ret |-> IF Raised(c) THEN [raised |-> c.raised]
                             ELSE c.heap[c.ret]]
        /\ UNCHANGED accVars

\* x.get_mapped_strings_to_ints()
GetMappedStringsToInts(x) ==
    /\ ulast' = [op |-> "get_mapped_strings_to_ints", self |-> x,
                 ret |-> UseCaseKeyResults_get_mapped_strings_to_ints(heap, uacc[x])]
    /\ UNCHANGED <<heap, uacc, accVars>>

\* The objects of hp that the accumulators accs hold
Collect(hp, accs) ==
    [r \in UNION {{accs[x].results[u] : u \in DOMAIN accs[x].results} :
                     x \in DOMAIN accs} |-> hp[r]]

\* M = x.merge(y); the objects that only the former value of M held are
\* dropped
UseCaseMerge(x, y) ==
    LET c == UseCaseKeyResults_merge(heap, uacc[x], uacc[y], "M")
    IN  /\ nmerges < MaxMerges
        /\ uacc' = [uacc EXCEPT !["M"] = c.ret]
        /\ heap' = Collect(c.heap, uacc')
        /\ ulast' = [op |-> "merge", self |-> Deref(heap, uacc[x]),
                     other |-> Deref(heap, uacc[y]), ret |-> Deref(c.heap, c.ret)]
        /\ nmerges' = nmerges + 1
        /\ UNCHANGED <<acc, last, nadds, log>>

\* x.get_unmapped_use_case_keys(UseCaseKeyCollection(arg)), the collection
\* being iterated in the order given
GetUnmappedUseCaseKeys(x, arg, order) ==
    LET keys == UseCaseKeyCollection(arg)
        c == UseCaseKeyResults_get_unmapped_use_case_keys(heap, uacc[x], keys, order)
    IN  /\ heap' = c.heap
        /\ uacc' = [uacc EXCEPT ![x] = c.self]
        /\ ulast' = [op |-> "get_unmapped_use_case_keys", self |-> x,
                     before |-> Deref(heap, uacc[x]), keys |-> keys,
                     raised |-> Raised(c),
                     ret |-> IF Raised(c) THEN [raised |-> c.raised] ELSE c.ret]
        /\ UNCHANGED accVars

(***************************************************************************)
(* The key containers and the from_string factories.                       *)
(***************************************************************************)
\* ukc = UseCaseKeyCollection(arg), for an argument of args
KeysInit(args) ==
    /\ \E arg \in args :
          /\ ukc = UseCaseKeyCollection(arg)
          /\ it \in UseCaseIterOrders(UseCaseKeyCollection(arg).mapping)
    /\ kcall = NoCall

\* Each behaviour makes one call on the containers it has built: the calls
\* below are pure, their results do not depend on earlier calls.

\* ukc.mapping[u].as_tuples()
KC_as_tuples(u) ==
    /\ kcall = NoCall
    /\ kcall' = [op |-> "KeyCollection.as_tuples", kc |-> ukc.mapping[u],
                 ret |-> KeyCollection_as_tuples(ukc.mapping[u], it.kcs[u])]
    /\ UNCHANGED <<ukc, it>>

\* ukc.mapping[u].as_strings()
KC_as_strings(u) ==
    /\ kcall = NoCall
    /\ kcall' = [op |-> "KeyCollection.as_strings", kc |-> ukc.mapping[u],
                 ret |-> KeyCollection_as_strings(ukc.mapping[u], it.kcs[u])]
    /\ UNCHANGED <<ukc, it>>

\* ukc.as_tuples()
UKC_as_tuples ==
    /\ kcall = NoCall
    /\ kcall' = [op |-> "UseCaseKeyCollection.as_tuples",
                 ret |-> UseCaseKeyCollection_as_tuples(ukc, it)]
    /\ UNCHANGED <<ukc, it>>

\* ukc.as_strings()
UKC_as_strings ==
    /\ kcall = NoCall
    /\ kcall' = [op |-> "UseCaseKeyCollection.as_strings",
                 ret |-> UseCaseKeyCollection_as_strings(ukc, it)]
    /\ UNCHANGED <<ukc, it>>

\* KeyResult.from_string(ukc.mapping[u].as_strings()[i], id); tuple is
\* ukc.mapping[u].as_tuples()[i]
KR_from_string_of(u, i, id) ==
    LET key == KeyCollection_as_strings(ukc.mapping[u], it.kcs[u])[i]
    IN  /\ kcall = NoCall
        /\ kcall' = [op |-> "KeyResult.from_string", key |-> key, id |-> id,
                     tuple |-> KeyCollection_as_tuples(ukc.mapping[u], it.kcs[u])[i],
                     ret |-> KeyResult_from_string(key, id)]
        /\ UNCHANGED <<ukc, it>>

\* UseCaseKeyResult.from_string(ukc.as_strings()[i], id); tuple is
\* ukc.as_tuples()[i]
UKR_from_string_of(i, id) ==
    LET key == UseCaseKeyCollection_as_strings(ukc, it)[i]
    IN  /\ kcall = NoCall
        /\ kcall' = [op |-> "UseCaseKeyResult.from_string", key |-> key, id |-> id,
                     tuple |-> UseCaseKeyCollection_as_tuples(ukc, it)[i],
                     ret |-> UseCaseKeyResult_from_string(key, id)]
        /\ UNCHANGED <<ukc, it>>

\* KeyResult.from_string(f"{org_id}:{string}", id)
KR_from_string(org_id, string, id) ==
    /\ kcall = NoCall
    /\ kcall' = [op |-> "KeyResult.from_string", key |-> FormatKey(org_id, string),
                 id |-> id, tuple |-> <<org_id, string>>,
                 ret |-> KeyResult_from_string(FormatKey(org_id, string), id)]
    /\ UNCHANGED <<ukc, it>>

(***************************************************************************)
(* StringIndexer.bulk_record.  base.py declares the method and documents   *)
(* its steps; the stages and their collaborators (static table, cache,     *)
(* persistent store, rate limiter) are implemented by its subclasses,      *)
(* outside base.py, and are modelled from the design document, sections    *)
(* 4.4 and 6.                                                              *)
(* A stage records the keys it resolves (the rate limiter records the keys *)
(* it drops, with id None), its KeyResults is merged into the running      *)
(* total, and the keys still unmapped are handed to the next stage.        *)
(***************************************************************************)
PipeStrSeq == <<(<<"a">>), (<<"b">>), (<<"c">>)>>
PipeStrs == {PipeStrSeq[i] : i \in 1..Len(PipeStrSeq)}
StrIndex(s) == CHOOSE i \in 1..Len(PipeStrSeq) : PipeStrSeq[i] = s
PipeKeys == Orgs \X PipeStrs
PipeMappings == UNION {[os -> SUBSET PipeStrs] : os \in SUBSET Orgs}

\* The fixed in-process table of the static-string stage
StaticStrings == [s \in {<<"a">>} |-> 1]

Stages == <<"static", "cache", "db_read", "rate_limit", "create">>
StageIndex(st) == CHOOSE i \in 1..Len(Stages) : Stages[i] = st

Row(org_id, string, id) == [org_id |-> org_id, string |-> string, id |-> id]

RECURSIVE SeqOf(_)
SeqOf(S) ==
    IF S = {} THEN <<>>
    ELSE LET x == CHOOSE y \in S : TRUE IN <<x>> \o SeqOf(S \ {x})

Min(a, b) == IF a < b THEN a ELSE b

\* The KeyCollection of a set of (org_id, string) pairs
CollectionOf(pairs) ==
    KeyCollection([o \in {p[1] : p \in pairs} |-> {p[2] : p \in {q \in pairs : q[1] = o}}])

\* A stage's KeyResults: its key results written with its fetch type
StageResults(key_results, fetch_type, fetch_type_ext) ==
    KeyResults_add_key_results(KeyResults_init, SeqOf(key_results), fetch_type,
                               fetch_type_ext)

\* Rate limiter: check_and_consume(org_id, use_case_id) -> allowed
check_and_consume(st, org_id) ==
    IF st.used[org_id] < st.limit[org_id]
    THEN [allowed |-> TRUE, store |-> [st EXCEPT !.used[org_id] = @ + 1]]
    ELSE [allowed |-> FALSE, store |-> st]

\* The rate limiter applied to the keys of order, one after the other
RECURSIVE CheckAll(_, _, _)
CheckAll(st, order, i) ==
    IF i > Len(order) THEN [accepted |-> {}, store |-> st]
    ELSE LET r == check_and_consume(st, order[i][1])
             rest == CheckAll(r.store, order, i + 1)
         IN  [accepted |-> (IF r.allowed THEN {order[i]} ELSE {}) \cup rest.accepted,
              store |-> rest.store]

\* An insert without the unique constraint
InsertRow_NoConstraint(rows, row) == rows \cup {row}

\* Persistent resolver: the insert of a row, which the store's unique
\* constraint turns into a no-op when the key has a row
InsertRow(rows, row) ==
    IF \E r \in rows : r.org_id = row.org_id /\ r.string = row.string
    THEN rows
    ELSE rows \cup {row}

\* Persistent resolver: the id of the row of a key
RowId(rows, org_id, string) ==
    (CHOOSE r \in rows : r.org_id = org_id /\ r.string = string).id

\* Persistent resolver: create_or_get(org_id, use_case_id, string) -> id
create_or_get(st, org_id, string) ==
    LET rows == InsertRow(st.rows, Row(org_id, string, st.next_id))
    IN  [id |-> RowId(rows, org_id, string),
         store |-> [st EXCEPT !.rows = rows, !.next_id = @ + 1]]

\* create_or_get applied to the keys of order, one after the other
RECURSIVE CreateAll(_, _, _)
CreateAll(st, order, i) ==
    IF i > Len(order) THEN [created |-> {}, store |-> st]
    ELSE LET r == create_or_get(st, order[i][1], order[i][2])
             rest == CreateAll(r.store, order, i + 1)
         IN  [created |-> {KeyResult(order[i][1], order[i][2], r.id)} \cup rest.created,
              store |-> rest.store]

\* The stores a call can find: some keys of the batch have a row, some of
\* the rows are cached; each org has a creation quota
PipeStores(mapping) ==
    LET stored == {p \in PairsOf(mapping) : p[2] \notin DOMAIN StaticStrings}
        id(p) == 10 * p[1] + StrIndex(p[2])
    IN  UNION {{[rows    |-> {Row(p[1], p[2], id(p)) : p \in inDb},
                 cache   |-> [k \in {FormatKey(p[1], p[2]) : p \in inCache} |->
                                 id(CHOOSE p \in inCache : FormatKey(p[1], p[2]) = k)],
                 limit   |-> lim,
                 used    |-> [o \in Orgs |-> 0],
                 next_id |-> 100] :
                   inCache \in SUBSET inDb, lim \in [Orgs -> 0..MaxQuota]} :
               inDb \in SUBSET stored}

\* bulk_record(use_case_id, org_strings) is called: step 1, the KeyCollection
PipeInit ==
    /\ pc = "static"
    /\ \E mapping \in PipeMappings :
          /\ batch = KeyCollection(mapping)
          /\ pending = KeyCollection(mapping)
          /\ store \in PipeStores(mapping)
    /\ handed = EmptyDict
    /\ recorded = EmptyDict
    /\ total = KeyResults_init
    /\ inst = EmptyDict

\* The end of a stage: its results are merged into the running total, the
\* keys of its input that are still unmapped go to the next stage, and the
\* call returns early when none is left
EndStage(stage, res, next_stage) ==
    LET merged == KeyResults_merge(total, res)
        rest == KeyResults_get_unmapped_keys(merged, pending)
    IN  /\ handed' = (stage :> pending) @@ handed
        /\ recorded' = (stage :> res) @@ recorded
        /\ total' = rest.self
        /\ pending' = rest.ret
        /\ pc' = IF rest.ret.size = 0 THEN "return" ELSE next_stage

\* Step 2: the static strings, fetch type HARDCODED
StaticStage ==
    /\ pc = "static"
    /\ EndStage("static",
                StageResults({KeyResult(p[1], p[2], StaticStrings[p[2]]) :
                                 p \in {q \in PairsOf(pending.mapping) :
                                           q[2] \in DOMAIN StaticStrings}},
                             HARDCODED, FetchTypeExt(TRUE)),
                "cache")
    /\ UNCHANGED <<batch, store>>

\* Step 3: the cache, read by string key, fetch type CACHE_HIT
CacheStage ==
    /\ pc = "cache"
    /\ EndStage("cache",
                StageResults({KeyResult_from_string(k, store.cache[k]) :
                                 k \in {FormatKey(p[1], p[2]) : p \in PairsOf(pending.mapping)}
                                           \cap DOMAIN store.cache},
                             CACHE_HIT, NoExt),
                "db_read")
    /\ UNCHANGED <<batch, store>>

\* Step 4: the persistent store, fetch type DB_READ
DbReadStage ==
    /\ pc = "db_read"
    /\ EndStage("db_read",
                StageResults({KeyResult(r.org_id, r.string, r.id) :
                                 r \in {x \in store.rows :
                                           <<x.org_id, x.string>> \in PairsOf(pending.mapping)}},
                             DB_READ, NoExt),
                "rate_limit")
    /\ UNCHANGED <<batch, store>>

\* Step 5: the rate limiter is asked for every key the store does not have;
\* a key over quota is recorded with id None and fetch type RATE_LIMITED, the
\* permitted keys go to the creation stage
RateLimitStage ==
    /\ pc = "rate_limit"
    /\ \E order \in Perms(PairsOf(pending.mapping)) :
          LET checked == CheckAll(store, order, 1)
              dropped == PairsOf(pending.mapping) \ checked.accepted
              res == StageResults({KeyResult(p[1], p[2], None) : p \in dropped},
                                  RATE_LIMITED, NoExt)
              merged == KeyResults_merge(total, res)
              rest == KeyResults_get_unmapped_keys(merged, pending)
              permitted == CollectionOf(PairsOf(rest.ret.mapping) \cap checked.accepted)
          IN  /\ handed' = ("rate_limit" :> pending) @@ handed
              /\ recorded' = ("rate_limit" :> res) @@ recorded
              /\ total' = rest.self
              /\ pending' = permitted
              /\ pc' = IF permitted.size = 0 THEN "return" ELSE "create"
              /\ store' = checked.store
    /\ UNCHANGED batch

\* Step 6: rows are created for the permitted keys, fetch type FIRST_SEEN
CreateStage ==
    /\ pc = "create"
    /\ \E order \in Perms(PairsOf(pending.mapping)) :
          LET made == CreateAll(store, order, 1)
              res == StageResults(made.created, FIRST_SEEN, NoExt)
              merged == KeyResults_merge(total, res)
              rest == KeyResults_get_unmapped_keys(merged, pending)
          IN  /\ handed' = ("create" :> pending) @@ handed
              /\ recorded' = ("create" :> res) @@ recorded
              /\ total' = rest.self
              /\ pending' = rest.ret
              /\ pc' = "return"
              /\ store' = made.store
    /\ UNCHANGED batch

\* Step 7: the cache is populated from the merged results, which are returned
Return ==
    /\ pc = "return"
    /\ store' = [store EXCEPT !.cache =
                    DictUpdate(@, KeyResults_get_mapped_key_strings_to_ints(total))]
    /\ pc' = "done"
    /\ UNCHANGED <<batch, pending, handed, recorded, total>>

(***************************************************************************)
(* Parallel indexer instances in the creation stage.  Each instance holds  *)
(* the keys it was permitted to create and calls create_or_get for one key *)
(* after the other; a call is an insert, which the store executes          *)
(* atomically, followed by the read of the key's row.  Calls of different  *)
(* instances interleave between the two.                                   *)
(***************************************************************************)
Instances == {1, 2}
RaceKeys == {<<1, (<<"b">>)>>, <<1, (<<"c">>)>>, <<2, (<<"b">>)>>}
NoKey == <<>>

RaceInit ==
    /\ pc = "create"
    /\ batch = KeyCollection(EmptyDict)
    /\ pending = KeyCollection(EmptyDict)
    /\ handed = EmptyDict
    /\ recorded = EmptyDict
    /\ total = KeyResults_init
    /\ store = [rows |-> {}, cache |-> EmptyDict, limit |-> [o \in Orgs |-> 0],
                used |-> [o \in Orgs |-> 0], next_id |-> 100]
    /\ inst \in [Instances -> {[todo |-> ks, cur |-> NoKey, results |-> KeyResults_init] :
                                  ks \in SUBSET RaceKeys \ {{}}}]

\* Instance i starts create_or_get for a key: the insert
RaceInsert(i) ==
    /\ inst[i].cur = NoKey
    /\ \E k \in inst[i].todo :
          /\ store' = [store EXCEPT !.rows = InsertRow(@, Row(k[1], k[2], store.next_id)),
                                    !.next_id = @ + 1]
          /\ inst' = [inst EXCEPT ![i].todo = @ \ {k}, ![i].cur = k]
    /\ UNCHANGED <<pc, batch, pending, handed, recorded, total>>

\* Instance i ends create_or_get: it reads the id of the key's row and
\* records it as FIRST_SEEN
RaceSelect(i) ==
    /\ inst[i].cur # NoKey
    /\ LET k == inst[i].cur
           id == RowId(store.rows, k[1], k[2])
       IN  inst' = [inst EXCEPT ![i].cur = NoKey,
                                ![i].results = KeyResults_add_key_result(
                                                   @, KeyResult(k[1], k[2], id),
                                                   FIRST_SEEN, NoExt)]
    /\ UNCHANGED pipeVars

(***************************************************************************)
(* Specifications.                                                         *)
(***************************************************************************)
Init == AccInit /\ UseCaseIdle /\ KeysIdle /\ PipeIdle

\* The accumulators of two pipeline stages, A and B: results are written to
\* them, and accumulators are merged into M
Next ==
    /\ UNCHANGED <<keyVars, pipeVars, inst, log, ucVars>>
    /\ \/ \E x \in {"A", "B"} : \E k \in KeyResultArgs(x), m \in MetaArgs(x) :
              AddKeyResult(x, k, m[1], m[2])
       \/ \E x \in {"A", "B"} : \E k1, k2 \in KeyResultArgs(x), m \in MetaArgs(x) :
              AddKeyResults(x, <<k1, k2>>, m[1], m[2])
       \/ \E x, y \in MergeNames : Merge(x, y)

Spec == Init /\ [][Next]_vars

\* One accumulator: results are written and queried
NextQuery ==
    /\ UNCHANGED <<keyVars, pipeVars, inst, log, ucVars>>
    /\ \/ \E k \in QueryKeyResultArgs, m \in QueryMetaArgs :
              AddKeyResult("A", k, m[1], m[2])
       \/ \E k1, k2 \in QueryKeyResultArgs, m \in QueryMetaArgs :
              AddKeyResults("A", <<k1, k2>>, m[1], m[2])
       \/ \E o \in Orgs : GetItem("A", o)
       \/ \E m \in KeyMappings : GetUnmappedKeys("A", m)

SpecQuery == Init /\ [][NextQuery]_vars

\* One accumulator: results are written, and every write is recorded in log
NextWrites ==
    /\ UNCHANGED <<keyVars, pipeVars, inst, ucVars>>
    /\ \/ \E k \in QueryKeyResultArgs, m \in WriteMetaArgs :
              /\ AddKeyResult("A", k, m[1], m[2])
              /\ log' = Append(log, <<k, m[1], m[2]>>)
       \/ \E k1, k2 \in QueryKeyResultArgs, m \in WriteMetaArgs :
              /\ AddKeyResults("A", <<k1, k2>>, m[1], m[2])
              /\ log' = log \o <<(<<k1, m[1], m[2]>>), (<<k2, m[1], m[2]>>)>>

SpecWrites == Init /\ [][NextWrites]_vars

\* The accumulators of two stages are written, merged into M and read
NextRead ==
    /\ UNCHANGED <<keyVars, pipeVars, inst, log, ucVars>>
    /\ \/ \E x \in {"A", "B"} : \E k \in ReadKeyResultArgs(x) :
              AddKeyResult(x, k, ReadMetaArgs(x)[1], ReadMetaArgs(x)[2])
       \/ \E x, y \in {"A", "B"} : Merge(x, y)
       \/ \E x \in ReadNames, o \in KeyOrgs : GetItem(x, o)
       \/ \E m \in ReadKeyMappings : GetUnmappedKeys("A", m)
       \/ \E x \in ReadNames : GetMappedResults(x)
       \/ \E x \in ReadNames : GetMappedKeyStringsToInts(x)

SpecRead == Init /\ [][NextRead]_vars

\* The UseCaseKeyResults of two stages are written, merged into M and read;
\* M is read once a merge has returned it
NextUseCase ==
    /\ UNCHANGED <<keyVars, pipeVars, inst>>
    /\ \/ \E x \in {"A", "B"} : \E r \in UseCaseKeyResultArgs(x) :
              AddUseCaseKeyResult(x, r, ReadMetaArgs(x)[1], ReadMetaArgs(x)[2])
       \/ \E x, y \in {"A", "B"} : UseCaseMerge(x, y)
       \/ \E x \in ReadNames, u \in UseCases :
              (x = "M" => nmerges > 0) /\ UseCaseGetItem(x, u)
       \/ \E x \in ReadNames :
              (x = "M" => nmerges > 0) /\ GetMappedStringsToInts(x)

SpecUseCase == Init /\ [][NextUseCase]_vars

\* One KeyResults and one UseCaseKeyResults, each holding one key already,
\* are written: the same string goes to several orgs and use cases
InitIsolation ==
    /\ \E k \in {KeyResult(1, s, i) : s \in Strs, i \in {None, 10}} :
          acc = [x \in AccNames |->
                    IF x = "A"
                    THEN KeyResults_add_key_result(KeyResults_init, k, CACHE_HIT, NoExt)
                    ELSE KeyResults_init]
    /\ \E r \in {UseCaseKeyResult(<<"p">>, 1, s, 5) : s \in UseCaseStrs} :
          LET c == UseCaseKeyResults_add_use_case_key_result(
                       EmptyDict, UseCaseKeyResults_init("A"), r, CACHE_HIT, NoExt)
          IN  /\ heap = c.heap
              /\ uacc = [x \in AccNames |->
                            IF x = "A" THEN c.self ELSE UseCaseKeyResults_init(x)]
    /\ last = NoCall
    /\ ulast = NoCall
    /\ nadds = 0
    /\ nmerges = 0
    /\ log = <<>>
    /\ KeysIdle /\ PipeIdle

NextIsolation ==
    /\ UNCHANGED <<keyVars, pipeVars, inst>>
    /\ \/ /\ \E k \in KeyResultArgs("A"), m \in MetaArgs("B") :
                AddKeyResult("A", k, m[1], m[2])
          /\ UNCHANGED <<log, ucVars>>
       \/ \E r \in UseCaseKeyResultArgs("A"), m \in MetaArgs("B") :
              AddUseCaseKeyResult("A", r, m[1], m[2])

SpecIsolation == InitIsolation /\ [][NextIsolation]_vars

\* A new KeyResults is asked once for unmapped keys; the UseCaseKeyResults
\* of two stages are written and merged into M; A and M are asked for
\* unmapped keys, and M is written
NextMerged ==
    /\ UNCHANGED <<keyVars, pipeVars, inst>>
    /\ \/ /\ last = NoCall
          /\ \E m \in ReadKeyMappings : GetUnmappedKeys("A", m)
          /\ UNCHANGED <<log, ucVars>>
       \/ \E x \in {"A", "B"} : \E r \in StageKeyResultArgs(x) :
              AddUseCaseKeyResult(x, r, ReadMetaArgs(x)[1], ReadMetaArgs(x)[2])
       \/ \E x, y \in {"A", "B"} : x # y /\ UseCaseMerge(x, y)
       \/ \E r \in MergedKeyResultArgs :
              nmerges > 0 /\ AddUseCaseKeyResult("M", r, NoFetchType, NoExt)
       \/ \E x \in ReadNames, arg \in UnmappedUseCaseArgs :
              \E order \in Perms(DOMAIN arg) :
                  (x = "M" => nmerges > 0) /\ GetUnmappedUseCaseKeys(x, arg, order)

SpecMerged == Init /\ [][NextMerged]_vars

\* The accumulators of two stages that pass their fetch type with every
\* write, and their merges
TypedMetaArgs(x) == MetaArgs(x) \ {<<NoFetchType, NoExt>>}

NextTyped ==
    /\ UNCHANGED <<keyVars, pipeVars, inst, log, ucVars>>
    /\ \/ \E x \in {"A", "B"} : \E k \in KeyResultArgs(x), m \in TypedMetaArgs(x) :
              AddKeyResult(x, k, m[1], m[2])
       \/ \E x \in {"A", "B"} : \E k1, k2 \in KeyResultArgs(x), m \in TypedMetaArgs(x) :
              AddKeyResults(x, <<k1, k2>>, m[1], m[2])
       \/ \E x, y \in {"A", "B"} : Merge(x, y)

SpecTyped == Init /\ [][NextTyped]_vars

\* One UseCaseKeyResults is written by add_use_case_key_results
NextBulk ==
    /\ UNCHANGED <<keyVars, pipeVars, inst>>
    /\ \E r \in BulkSeqs, m \in MetaArgs("B") :
          AddUseCaseKeyResults("A", r, m[1], m[2])

SpecBulk == Init /\ [][NextBulk]_vars

InitAssoc ==
    /\ \E a \in AssocInputs("A"), b \in AssocInputs("B"), c \in AssocInputs("C") :
          acc = [x \in AccNames |->
                    IF x = "A" THEN a ELSE IF x = "B" THEN b
                    ELSE IF x = "C" THEN c ELSE KeyResults_init]
    /\ last = NoCall
    /\ nadds = 0
    /\ nmerges = 0
    /\ log = <<>>
    /\ UseCaseIdle /\ KeysIdle /\ PipeIdle

NextAssoc ==
    /\ UNCHANGED <<keyVars, pipeVars, inst, log, ucVars>>
    /\ MergeThree

\* The accumulators of three stages are merged in both groupings
SpecAssoc == InitAssoc /\ [][NextAssoc]_vars

NextCommute ==
    /\ UNCHANGED <<keyVars, pipeVars, inst, log, ucVars>>
    /\ MergeBothOrders

\* The accumulators of two stages are merged in both orders
SpecCommute == InitAssoc /\ [][NextCommute]_vars

InitKeys == AccInit /\ UseCaseIdle /\ KeysInit(UseCaseKeyArgs) /\ PipeIdle

NextKeys ==
    /\ UNCHANGED <<accVars, pipeVars, inst, ucVars>>
    /\ \/ \E u \in DOMAIN ukc.mapping : KC_as_tuples(u)
       \/ \E u \in DOMAIN ukc.mapping : KC_as_strings(u)
       \/ UKC_as_tuples
       \/ UKC_as_strings
       \/ \E u \in DOMAIN ukc.mapping, id \in ParseIds :
              \E i \in 1..ukc.mapping[u].size : KR_from_string_of(u, i, id)
       \/ \E i \in 1..ukc.size, id \in ParseIds : UKR_from_string_of(i, id)

\* A UseCaseKeyCollection is built, listed, and its string keys parsed back
SpecKeys == InitKeys /\ [][NextKeys]_vars

InitParse == AccInit /\ UseCaseIdle /\ KeysInit(RawUseCaseKeyArgs) /\ PipeIdle

NextParse ==
    /\ UNCHANGED <<accVars, pipeVars, inst, ucVars>>
    /\ \/ \E u \in DOMAIN ukc.mapping : KC_as_strings(u)
       \/ \E u \in DOMAIN ukc.mapping, id \in ParseIds :
              \E i \in 1..ukc.mapping[u].size : KR_from_string_of(u, i, id)
       \/ \E o \in ParseOrgs, s \in ParseStrs, id \in ParseIds : KR_from_string(o, s, id)

\* Keys are formatted and parsed by KeyResult.from_string
SpecParse == InitParse /\ [][NextParse]_vars

InitPipe == AccInit /\ UseCaseIdle /\ KeysIdle /\ PipeInit

NextPipe ==
    /\ UNCHANGED <<accVars, keyVars, inst, ucVars>>
    /\ \/ StaticStage
       \/ CacheStage
       \/ DbReadStage
       \/ RateLimitStage
       \/ CreateStage
       \/ Return

\* One bulk_record call
SpecPipe == InitPipe /\ [][NextPipe]_vars

InitRace == AccInit /\ UseCaseIdle /\ KeysIdle /\ RaceInit

NextRace ==
    /\ UNCHANGED <<accVars, keyVars, ucVars>>
    /\ \/ \E i \in Instances : RaceInsert(i)
       \/ \E i \in Instances : RaceSelect(i)

\* Two instances create rows in the same store
SpecRace == InitRace /\ [][NextRace]_vars

(***************************************************************************)
(* Properties.                                                             *)
(***************************************************************************)
\* "d has an entry for (org_id, string)"
Has(d, o, s) == o \in DOMAIN d /\ s \in DOMAIN d[o]

\* C1: A.merge(B) holds, for every (org_id, string) present in both
\* A.results and B.results, the id of A (self wins), and for every
\* (org_id, string) present in both A.meta and B.meta, the Metadata of B
\* (other wins).
C1_MergeSelfIdsOtherMeta ==
    last.op = "merge" =>
        \A o \in Orgs, s \in Strs :
            /\ Has(last.self.results, o, s) /\ Has(last.other.results, o, s)
                  => /\ Has(last.ret.results, o, s)
                     /\ last.ret.results[o][s] = last.self.results[o][s]
            /\ Has(last.self.meta, o, s) /\ Has(last.other.meta, o, s)
                  => /\ Has(last.ret.meta, o, s)
                     /\ last.ret.meta[o][s] = last.other.meta[o][s]

\* C1 witness: a merge of two accumulators that hold different ids and
\* different Metadata for the same key
C1_Witness ==
    /\ last.op = "merge"
    /\ \E o \in Orgs, s \in Strs :
          /\ Has(last.self.results, o, s) /\ Has(last.other.results, o, s)
          /\ last.self.results[o][s] # last.other.results[o][s]
          /\ Has(last.self.meta, o, s) /\ Has(last.other.meta, o, s)
          /\ last.self.meta[o][s] # last.other.meta[o][s]

\* C2: get_unmapped_keys(C) returns exactly the keys of C whose id in results
\* is falsy (absent, None or 0): a pair is in the returned collection iff it
\* is in C and has no truthy id; no org of the returned collection has an
\* empty set of strings.
C2_UnmappedIsComplement ==
    last.op = "get_unmapped_keys" =>
        LET C == last.keys.mapping
            R == last.ret.mapping
            res == last.before.results
        IN  /\ DOMAIN R \subseteq Orgs
            /\ \A o \in DOMAIN R : R[o] \subseteq Strs /\ R[o] # {}
            /\ \A o \in Orgs, s \in Strs :
                  (o \in DOMAIN R /\ s \in R[o])
                      <=> /\ o \in DOMAIN C /\ s \in C[o]
                          /\ \/ ~Has(res, o, s)
                             \/ res[o][s] = None
                             \/ res[o][s] = 0

\* C2 witness: a call on a collection with a resolved key, a key recorded
\* with a falsy id and a key never written
C2_Witness ==
    /\ last.op = "get_unmapped_keys"
    /\ \E o \in DOMAIN last.keys.mapping : \E s \in last.keys.mapping[o] :
          Has(last.before.results, o, s) /\ last.before.results[o][s] = 10
    /\ \E o \in DOMAIN last.keys.mapping : \E s \in last.keys.mapping[o] :
          Has(last.before.results, o, s) /\ last.before.results[o][s] \in {None, 0}
    /\ \E o \in DOMAIN last.keys.mapping : \E s \in last.keys.mapping[o] :
          ~Has(last.before.results, o, s)

\* The (use_case_id, org_id, string) triples of a UseCaseKeyCollection mapping
TriplesOf(mapping) ==
    UNION {{<<u, p[1], p[2]>> : p \in PairsOf(mapping[u].mapping)} : u \in DOMAIN mapping}

\* The sum of the sizes of the per-org sets of a mapping over KeyOrgs
SumOfSetSizes(mapping) ==
    (IF 1 \in DOMAIN mapping THEN Cardinality(mapping[1]) ELSE 0)
        + (IF 10 \in DOMAIN mapping THEN Cardinality(mapping[10]) ELSE 0)

\* "seq lists exactly the elements of S, each once"
ListsExactly(seq, S) ==
    /\ {seq[i] : i \in 1..Len(seq)} = S
    /\ \A i, j \in 1..Len(seq) : seq[i] = seq[j] => i = j

\* C3: for every KeyCollection built from a mapping M (orgs with an empty
\* set included), size is the sum of the sizes of M's per-org sets and
\* as_tuples() yields exactly size distinct pairs, the pairs of M; likewise
\* for UseCaseKeyCollection with (use_case_id, org_id, string) triples.
C3_SizeAndTuples ==
    /\ \A u \in DOMAIN ukc.mapping :
          ukc.mapping[u].size = SumOfSetSizes(ukc.mapping[u].mapping)
    /\ ukc.size = Cardinality(TriplesOf(ukc.mapping))
    /\ kcall.op = "KeyCollection.as_tuples"
          => /\ Len(kcall.ret) = kcall.kc.size
             /\ ListsExactly(kcall.ret, PairsOf(kcall.kc.mapping))
    /\ kcall.op = "UseCaseKeyCollection.as_tuples"
          => /\ Len(kcall.ret) = ukc.size
             /\ ListsExactly(kcall.ret, TriplesOf(ukc.mapping))

\* C3 witness: as_tuples() of a collection of two use cases, one of them with
\* an org whose set is empty next to an org with two strings
C3_Witness ==
    /\ kcall.op = "UseCaseKeyCollection.as_tuples"
    /\ Cardinality(DOMAIN ukc.mapping) = 2
    /\ ukc.size >= 3
    /\ \E u \in DOMAIN ukc.mapping :
          /\ \E o \in DOMAIN ukc.mapping[u].mapping : ukc.mapping[u].mapping[o] = {}
          /\ \E o \in DOMAIN ukc.mapping[u].mapping :
                 Cardinality(ukc.mapping[u].mapping[o]) = 2

\* C4: UseCaseKeyResult.from_string(key, id), for a key
\* "{use_case_id}:{org_id}:{string}", returns
\* UseCaseKeyResult(use_case_id, int(org_id), string, id); it round-trips
\* every element of UseCaseKeyCollection.as_strings().
C4_UseCaseFromStringRoundTrip ==
    kcall.op = "UseCaseKeyResult.from_string" =>
        kcall.ret = UseCaseKeyResult(kcall.tuple[1], kcall.tuple[2], kcall.tuple[3], kcall.id)

\* C5: KeyResult.from_string(f"{org}:{s}", id) equals KeyResult(org, s, id)
\* for every integer org and every string s, colons in s included; so every
\* element of KeyCollection.as_strings() parses back to the element of
\* as_tuples() at the same position.
C5_FromStringRoundTrip ==
    kcall.op = "KeyResult.from_string" =>
        kcall.ret = KeyResult(kcall.tuple[1], kcall.tuple[2], kcall.id)

\* C5 witness: a key parsed whose org has two digits and whose string holds
\* a colon
C5_Witness ==
    /\ kcall.op = "KeyResult.from_string"
    /\ kcall.tuple[1] >= 10
    /\ \E i \in 1..Len(kcall.tuple[2]) : kcall.tuple[2][i] = ":"
    /\ ~Raised(kcall.ret)

\* The keys the rate-limit stage has recorded with id None and RATE_LIMITED
RateLimitedKeys ==
    IF "rate_limit" \in DOMAIN recorded
    THEN {p \in PipeKeys :
             /\ Has(recorded["rate_limit"].results, p[1], p[2])
             /\ recorded["rate_limit"].results[p[1]][p[2]] = None
             /\ Has(recorded["rate_limit"].meta, p[1], p[2])
             /\ recorded["rate_limit"].meta[p[1]][p[2]].fetch_type = RATE_LIMITED}
    ELSE {}

C7_StagesSeeUnresolvedOnly ==
    \A s1, s2 \in DOMAIN handed :
        StageIndex(s1) < StageIndex(s2) =>
            \A p \in PipeKeys :
                Has(recorded[s1].results, p[1], p[2]) /\ recorded[s1].results[p[1]][p[2]] > 0
                    => /\ p \notin PairsOf(handed[s2].mapping)
                       /\ ~(/\ Has(recorded[s2].results, p[1], p[2])
                            /\ recorded[s2].results[p[1]][p[2]] # None)

\* "stage st has recorded an id for some key"
Resolved(st) ==
    /\ st \in DOMAIN recorded
    /\ \E p \in PipeKeys :
          Has(recorded[st].results, p[1], p[2]) /\ recorded[st].results[p[1]][p[2]] > 0

\* C7 witness: a call in which each of the five stages ran, four of them
\* resolving a key
C7_Witness ==
    /\ pc = "done"
    /\ Resolved("static") /\ Resolved("cache") /\ Resolved("db_read") /\ Resolved("create")
    /\ "rate_limit" \in DOMAIN recorded

\* The rows of a key in the persistent store
RowsOf(p) == {r \in store.rows : r.org_id = p[1] /\ r.string = p[2]}

\* C8: bulk_record returns a KeyResults with an entry in results for every
\* (org_id, string) of the input: a resolvable key (static, or with a row in
\* the store) has its id, and a key left unresolved is present with id None
\* and has a Metadata entry.
C8_ReturnCoversInput ==
    pc = "done" =>
        \A p \in PairsOf(batch.mapping) :
            /\ Has(total.results, p[1], p[2])
            /\ p[2] \in DOMAIN StaticStrings
                  => total.results[p[1]][p[2]] = StaticStrings[p[2]]
            /\ \A r \in RowsOf(p) : total.results[p[1]][p[2]] = r.id
            /\ p[2] \notin DOMAIN StaticStrings /\ RowsOf(p) = {}
                  => /\ total.results[p[1]][p[2]] = None
                     /\ Has(total.meta, p[1], p[2])

\* C8 witness: a returned call with a key read from the store, a key created
\* and a key left unresolved
C8_Witness ==
    /\ pc = "done"
    /\ Resolved("db_read") /\ Resolved("create")
    /\ \E p \in PairsOf(batch.mapping) :
          Has(total.results, p[1], p[2]) /\ total.results[p[1]][p[2]] = None

\* The keys of org o in the batch that are neither static nor had a row when
\* the call began (rows created by the call have ids from 100)
Unseen(o) ==
    {p \in PairsOf(batch.mapping) :
        /\ p[1] = o
        /\ p[2] \notin DOMAIN StaticStrings
        /\ \A r \in RowsOf(p) : r.id >= 100}

\* "the call resolved p as FIRST_SEEN, with an id"
FirstSeen(p) ==
    /\ Has(total.results, p[1], p[2]) /\ total.results[p[1]][p[2]] # None
    /\ Has(total.meta, p[1], p[2]) /\ total.meta[p[1]][p[2]].fetch_type = FIRST_SEEN
    /\ total.meta[p[1]][p[2]].id = total.results[p[1]][p[2]]

\* "the call recorded p as RATE_LIMITED, with id None"
RateLimited(p) ==
    /\ Has(total.results, p[1], p[2]) /\ total.results[p[1]][p[2]] = None
    /\ Has(total.meta, p[1], p[2]) /\ total.meta[p[1]][p[2]].fetch_type = RATE_LIMITED
    /\ total.meta[p[1]][p[2]].id = None

\* C9: with a quota of 1 for an org, a batch with two previously unseen
\* strings of that org resolves exactly one of them as FIRST_SEEN with an id
\* and records the other as RATE_LIMITED with id None.
C9_QuotaOneResolvesOne ==
    pc = "done" =>
        \A o \in Orgs :
            store.limit[o] = 1 /\ Cardinality(Unseen(o)) = 2
                => \E p \in Unseen(o) :
                       /\ FirstSeen(p)
                       /\ \A q \in Unseen(o) \ {p} : RateLimited(q)

\* C9 witness: a returned call on a batch with two unseen strings of an org
\* whose quota is 1
C9_Witness ==
    /\ pc = "done"
    /\ \E o \in Orgs : store.limit[o] = 1 /\ Cardinality(Unseen(o)) = 2

\* C10: when two instances run the creation stage for the same unseen key,
\* under every interleaving the key has exactly one row once an instance has
\* inserted it, and the instances that have recorded the key hold the id of
\* that row, hence the same id.
C10_RaceOneRowSameId ==
    \A k \in RaceKeys :
        /\ Cardinality(RowsOf(k)) <= 1
        /\ \A i \in Instances :
              inst[i].cur = k \/ Has(inst[i].results.results, k[1], k[2])
                  => Cardinality(RowsOf(k)) = 1
        /\ \A i \in Instances :
              Has(inst[i].results.results, k[1], k[2])
                  => \A r \in RowsOf(k) : inst[i].results.results[k[1]][k[2]] = r.id
        /\ \A i, j \in Instances :
              /\ Has(inst[i].results.results, k[1], k[2])
              /\ Has(inst[j].results.results, k[1], k[2])
              => inst[i].results.results[k[1]][k[2]] = inst[j].results.results[k[1]][k[2]]

\* C10 witness: both instances have recorded the same key, after three
\* inserts or more
C10_Witness ==
    /\ store.next_id >= 103
    /\ \E k \in RaceKeys :
          \A i \in Instances : Has(inst[i].results.results, k[1], k[2])

\* C11: after any sequence of add_key_result, add_key_results and merge
\* calls starting from empty KeyResults, every (org_id, string) that has an
\* entry in meta has an entry (possibly with id None) in results.
C11_MetaKeysInResults ==
    \A x \in AccNames :
        \A o \in DOMAIN acc[x].meta : \A s \in DOMAIN acc[x].meta[o] :
            Has(acc[x].results, o, s)

\* C11 witness: a merged accumulator that holds Metadata for a key recorded
\* with id None, and Metadata that came from one side for a key whose id came
\* from the other
C11_Witness ==
    /\ last.op = "merge"
    /\ \E o \in Orgs, s \in Strs :
          /\ Has(acc["M"].meta, o, s)
          /\ Has(acc["M"].results, o, s) /\ acc["M"].results[o][s] = None
    /\ \E o \in Orgs, s \in Strs :
          /\ Has(last.ret.meta, o, s) /\ ~Has(last.self.meta, o, s)
          /\ Has(last.self.results, o, s)
          /\ last.self.results[o][s] # last.other.results[o][s]

\* The entries of log written by the step: those that log' has and log has not
NewWrites == (Len(log) + 1)..Len(log')

\* C12: add_key_result and add_key_results called without a fetch_type
\* update only results[org_id][string] of the keys they are given: the whole
\* meta mapping, the Metadata of those keys included, and every other entry
\* of results are left as they were.
C12_NoFetchTypeLeavesMeta ==
    [][(NewWrites # {} /\ \A i \in NewWrites : log'[i][2] = NoFetchType)
           => /\ acc'["A"].meta = acc["A"].meta
              /\ \A i \in NewWrites :
                    Has(acc'["A"].results, log'[i][1].org_id, log'[i][1].string)
              /\ \A o \in Orgs, s \in Strs :
                    (\A i \in NewWrites :
                         <<log'[i][1].org_id, log'[i][1].string>> # <<o, s>>)
                        => /\ Has(acc'["A"].results, o, s) <=> Has(acc["A"].results, o, s)
                           /\ Has(acc["A"].results, o, s)
                                 => acc'["A"].results[o][s] = acc["A"].results[o][s]]_vars

\* C12 witness: the last write had no fetch_type, gave a new id to a key that
\* has Metadata, and the Metadata still holds the old id
C12_Witness ==
    /\ Len(log) >= 2
    /\ log[Len(log)][2] = NoFetchType
    /\ LET k == log[Len(log)][1]
       IN  /\ Has(acc["A"].meta, k.org_id, k.string)
           /\ acc["A"].meta[k.org_id][k.string].id # k.id
           /\ acc["A"].results[k.org_id][k.string] = k.id

\* The greatest element of a set of indices
MaxOf(S) == CHOOSE i \in S : \A j \in S : j <= i

\* The writes of log to the key (o, s), and those that gave a fetch_type
WritesTo(o, s) ==
    {i \in 1..Len(log) : log[i][1].org_id = o /\ log[i][1].string = s}
TypedWritesTo(o, s) == {i \in WritesTo(o, s) : log[i][2] # NoFetchType}

\* C13: writes are last-write-wins: after any sequence of writes,
\* results[org_id][string] is the id of the last write to the key, and
\* meta[org_id][string] is the Metadata built from the last write to the key
\* that supplied a fetch_type; a key never written, or never written with a
\* fetch_type, has no entry.
C13_LastWriteWins ==
    \A o \in Orgs, s \in Strs :
        /\ Has(acc["A"].results, o, s) <=> WritesTo(o, s) # {}
        /\ WritesTo(o, s) # {}
              => acc["A"].results[o][s] = log[MaxOf(WritesTo(o, s))][1].id
        /\ Has(acc["A"].meta, o, s) <=> TypedWritesTo(o, s) # {}
        /\ TypedWritesTo(o, s) # {}
              => LET w == log[MaxOf(TypedWritesTo(o, s))]
                 IN  acc["A"].meta[o][s] = Metadata(w[1].id, w[2], w[3])

\* C13 witness: a key written twice with different ids, the first write with
\* a fetch_type and the last one without
C13_Witness ==
    \E o \in Orgs, s \in Strs :
        /\ Cardinality(WritesTo(o, s)) >= 2
        /\ Cardinality(TypedWritesTo(o, s)) >= 1
        /\ MaxOf(TypedWritesTo(o, s)) < MaxOf(WritesTo(o, s))
        /\ log[MaxOf(TypedWritesTo(o, s))][1].id # log[MaxOf(WritesTo(o, s))][1].id

\* C14: in every reachable KeyResults state, states with orgs auto-created by
\* __getitem__ or get_unmapped_keys included, get_mapped_results() returns no
\* org whose sub-mapping is empty and returns every org whose sub-mapping is
\* not empty, with that sub-mapping.
C14_MappedResultsNonEmptyOrgs ==
    last.op = "get_mapped_results" =>
        LET res == acc[last.self].results
        IN  /\ \A o \in DOMAIN last.ret : DOMAIN last.ret[o] # {}
            /\ \A o \in DOMAIN res :
                  DOMAIN res[o] # {} => o \in DOMAIN last.ret /\ last.ret[o] = res[o]

\* C14 witness: get_mapped_results() of a merged accumulator that holds an
\* org with an empty sub-mapping next to an org with entries
C14_Witness ==
    /\ last.op = "get_mapped_results"
    /\ last.self = "M"
    /\ \E o \in DOMAIN acc["M"].results : DOMAIN acc["M"].results[o] = {}
    /\ \E o \in DOMAIN acc["M"].results : DOMAIN acc["M"].results[o] # {}

\* C15: get_mapped_key_strings_to_ints() exports exactly the entries of
\* results whose id is not None: its keys are the strings "{org_id}:{string}"
\* of those entries and each key maps to the entry's id; an entry with id
\* None is not exported.
C15_ExportsNonNullEntries ==
    last.op = "get_mapped_key_strings_to_ints" =>
        LET res == acc[last.self].results
            exported == {p \in KeyOrgs \X KeyStrs :
                            Has(res, p[1], p[2]) /\ res[p[1]][p[2]] # None}
        IN  /\ DOMAIN last.ret = {FormatKey(p[1], p[2]) : p \in exported}
            /\ \A p \in exported : last.ret[FormatKey(p[1], p[2])] = res[p[1]][p[2]]

\* C15 witness: an export of a merged accumulator that holds the entry
\* 10/":b" with id None and the entry 10/"a" with id 0, exported as "10:a"
C15_Witness ==
    /\ last.op = "get_mapped_key_strings_to_ints"
    /\ last.self = "M"
    /\ Has(acc["M"].results, 10, <<":", "b">>)
    /\ acc["M"].results[10][<<":", "b">>] = None
    /\ <<"1", "0", ":", "a">> \in DOMAIN last.ret
    /\ last.ret[<<"1", "0", ":", "a">>] = 0

\* C17: KeyResults.__getitem__(org_id) does not raise for an org that has no
\* results: in every reachable state (fresh, after adds, after merge) it
\* returns an empty string -> id mapping for such an org.
C17_GetItemUnknownOrgEmpty ==
    (last.op = "getitem" /\ ~last.known) => last.ret = EmptyDict

\* C17 witness: a read of an unknown org of a merged accumulator that holds
\* results of another org
C17_Witness ==
    /\ last.op = "getitem"
    /\ ~last.known
    /\ last.self = "M"
    /\ nmerges > 0
    /\ \E o \in DOMAIN acc["M"].results : DOMAIN acc["M"].results[o] # {}

\* The (use_case_id, org_id, string) triples a UseCaseKeyResults holds with a
\* non-null id
RecordedNonNull(held) ==
    {t \in UseCases \X UseCaseOrgs \X UseCaseStrs :
        /\ t[1] \in DOMAIN held
        /\ Has(held[t[1]].results, t[2], t[3])
        /\ held[t[1]].results[t[2]][t[3]] # None}

\* "{use_case_id}:{org_id}:{string}"
TripleKey(t) == t[1] \o <<":">> \o IntToStr(t[2]) \o <<":">> \o t[3]

\* C16: UseCaseKeyResults.get_mapped_strings_to_ints() returns exactly one
\* entry "{use_case_id}:{org_id}:{string}" -> id for every
\* (use_case_id, org_id, string) recorded with a non-null id, and no other
\* entry; the results p/1/x = 5 and s/1/:y = 6 export
\* {"p:1:x": 5, "s:1::y": 6}.
C16_UseCaseExportsNonNullEntries ==
    ulast.op = "get_mapped_strings_to_ints" =>
        LET held == Deref(heap, uacc[ulast.self])
        IN  /\ DOMAIN ulast.ret = {TripleKey(t) : t \in RecordedNonNull(held)}
            /\ Cardinality(DOMAIN ulast.ret) = Cardinality(RecordedNonNull(held))
            /\ \A t \in RecordedNonNull(held) :
                  ulast.ret[TripleKey(t)] = held[t[1]].results[t[2]][t[3]]

\* C16 witness: the export of a merged accumulator that holds p/1/x = 5 and
\* s/1/:y = 6
C16_Witness ==
    /\ ulast.op = "get_mapped_strings_to_ints"
    /\ ulast.self = "M"
    /\ DOMAIN ulast.ret = {<<"p", ":", "1", ":", "x">>, <<"s", ":", "1", ":", ":", "y">>}
    /\ ulast.ret[<<"p", ":", "1", ":", "x">>] = 5
    /\ ulast.ret[<<"s", ":", "1", ":", ":", "y">>] = 6

\* C18: UseCaseKeyResults.__getitem__(use_case_id) does not raise for an
\* unknown use case and returns an empty KeyResults, in every reachable
\* state, the value returned by UseCaseKeyResults.merge included.
C18_UseCaseGetItemUnknownEmpty ==
    (ulast.op = "getitem" /\ ~ulast.known) => ulast.ret = KeyResults_init

\* C19: UseCaseKeyResults.merge(other) returns an accumulator whose use cases
\* are those of self and those of other; a use case of both sides holds
\* self[uc].merge(other[uc]) (ids from self, Metadata from other), a use case
\* of one side holds that side's KeyResults.
C19_UseCaseMergeUnion ==
    ulast.op = "merge" =>
        /\ DOMAIN ulast.ret = DOMAIN ulast.self \cup DOMAIN ulast.other
        /\ \A u \in DOMAIN ulast.self \cap DOMAIN ulast.other :
              /\ ulast.ret[u] = KeyResults_merge(ulast.self[u], ulast.other[u])
              /\ \A o \in UseCaseOrgs, s \in UseCaseStrs :
                    /\ Has(ulast.self[u].results, o, s)
                          => ulast.ret[u].results[o][s] = ulast.self[u].results[o][s]
                    /\ Has(ulast.other[u].meta, o, s)
                          => ulast.ret[u].meta[o][s] = ulast.other[u].meta[o][s]
        /\ \A u \in DOMAIN ulast.self \ DOMAIN ulast.other : ulast.ret[u] = ulast.self[u]
        /\ \A u \in DOMAIN ulast.other \ DOMAIN ulast.self : ulast.ret[u] = ulast.other[u]

\* C19 witness: a merge of two accumulators that hold different ids and
\* Metadata for the same key of a use case, self holding another use case
\* that other does not hold
C19_Witness ==
    /\ ulast.op = "merge"
    /\ DOMAIN ulast.self \ DOMAIN ulast.other # {}
    /\ \E u \in DOMAIN ulast.self \cap DOMAIN ulast.other :
          \E o \in UseCaseOrgs, s \in UseCaseStrs :
              /\ Has(ulast.self[u].results, o, s) /\ Has(ulast.other[u].results, o, s)
              /\ ulast.self[u].results[o][s] # ulast.other[u].results[o][s]
              /\ Has(ulast.self[u].meta, o, s) /\ Has(ulast.other[u].meta, o, s)

\* C20: KeyResults.merge is associative: for all KeyResults A, B and C,
\* (A.merge(B)).merge(C) equals A.merge(B.merge(C)), in results and in meta.
C20_MergeAssociative ==
    last.op = "merge_three" =>
        /\ last.left.results = last.right.results
        /\ last.left.meta = last.right.meta

\* C20 witness: three accumulators that hold three different ids and
\* Metadata for the same key, and a key that B holds with id None and C with
\* an id, are merged
C20_Witness ==
    /\ last.op = "merge_three"
    /\ \E s \in Strs :
          /\ Has(acc["A"].results, 1, s) /\ acc["A"].results[1][s] = 10
          /\ Has(acc["B"].results, 1, s) /\ acc["B"].results[1][s] = 20
          /\ Has(acc["C"].results, 1, s) /\ acc["C"].results[1][s] = 30
          /\ Has(acc["A"].meta, 1, s) /\ Has(acc["B"].meta, 1, s)
          /\ Has(acc["C"].meta, 1, s)
          /\ last.left.results[1][s] = 10
          /\ last.left.meta[1][s].fetch_type = FIRST_SEEN
    /\ \E s \in Strs :
          /\ ~Has(acc["A"].results, 1, s)
          /\ Has(acc["B"].results, 1, s) /\ acc["B"].results[1][s] = None
          /\ Has(acc["C"].results, 1, s) /\ acc["C"].results[1][s] = 30

\* What a KeyResults holds for one org: its results and meta entries, if any
OrgEntries(kr, o) ==
    [has_results |-> o \in DOMAIN kr.results,
     results     |-> IF o \in DOMAIN kr.results THEN kr.results[o] ELSE EmptyDict,
     has_meta    |-> o \in DOMAIN kr.meta,
     meta        |-> IF o \in DOMAIN kr.meta THEN kr.meta[o] ELSE EmptyDict]

\* What a UseCaseKeyResults holds for one use case: its KeyResults, if any
UseCaseEntries(hp, ukr, u) ==
    [has |-> u \in DOMAIN ukr.results,
     key_results |-> IF u \in DOMAIN ukr.results THEN hp[ukr.results[u]]
                     ELSE KeyResults_init]

\* C21: keys are isolated by org and use case: add_key_result for
\* (org_id, string) leaves results and meta of every other org unchanged,
\* and add_use_case_key_result for use case u leaves the KeyResults of every
\* other use case unchanged, also when the same string is recorded in
\* several orgs or use cases.
C21_IsolatedByOrgAndUseCase ==
    [][/\ \A k \in KeyResultArgs("A"), m \in MetaArgs("B") :
             AddKeyResult("A", k, m[1], m[2])
                 => \A o \in Orgs \ {k.org_id} :
                        OrgEntries(acc'["A"], o) = OrgEntries(acc["A"], o)
       /\ \A r \in UseCaseKeyResultArgs("A"), m \in MetaArgs("B") :
             AddUseCaseKeyResult("A", r, m[1], m[2])
                 => \A u \in UseCases \ {r.use_case_id} :
                        UseCaseEntries(heap', uacc'["A"], u)
                            = UseCaseEntries(heap, uacc["A"], u)]_vars

\* C21 witness: the same string is held with different ids by two orgs of
\* the KeyResults and by two use cases of the UseCaseKeyResults
C21_Witness ==
    /\ \E s \in Strs :
          /\ Has(acc["A"].results, 1, s) /\ Has(acc["A"].results, 2, s)
          /\ acc["A"].results[1][s] = 10 /\ acc["A"].results[2][s] = None
          /\ Has(acc["A"].meta, 1, s) /\ ~Has(acc["A"].meta, 2, s)
    /\ DOMAIN uacc["A"].results = UseCases
    /\ \E s \in UseCaseStrs :
          /\ Has(heap[uacc["A"].results[<<"p">>]].results, 1, s)
          /\ Has(heap[uacc["A"].results[<<"s">>]].results, 1, s)
          /\ heap[uacc["A"].results[<<"p">>]].results[1][s] = 5
          /\ heap[uacc["A"].results[<<"s">>]].results[1][s] = None

\* C22: every org entry returned by KeyResults.get_mapped_results() holds at
\* least one string whose id is not None; an org whose strings were all
\* recorded with id None is not returned.
C22_MappedResultsHoldResolvedString ==
    last.op = "get_mapped_results" =>
        \A o \in DOMAIN last.ret : \E s \in DOMAIN last.ret[o] : last.ret[o][s] # None

\* C23, as claimed: KeyResults.merge never loses a resolved id: a key that
\* self.results or other.results holds with an id that is not None is held
\* by the merged results with an id that is not None.
C23_MergeKeepsResolvedId ==
    last.op = "merge" =>
        \A o \in Orgs, s \in Strs :
            (\/ Has(last.self.results, o, s) /\ last.self.results[o][s] # None
             \/ Has(last.other.results, o, s) /\ last.other.results[o][s] # None)
                => Has(last.ret.results, o, s) /\ last.ret.results[o][s] # None

\* C23, amended: the merged results hold an id that is not None for a key
\* that self.results holds with such an id, and for a key that other.results
\* holds with such an id and self.results does not hold; a key that
\* self.results holds with None is held with None by the merged results,
\* whatever other.results holds for it.
C23_MergeKeepsResolvedIdUnlessSelfNone ==
    last.op = "merge" =>
        \A o \in Orgs, s \in Strs :
            /\ (\/ Has(last.self.results, o, s) /\ last.self.results[o][s] # None
                \/ /\ Has(last.other.results, o, s) /\ last.other.results[o][s] # None
                   /\ ~Has(last.self.results, o, s))
                  => Has(last.ret.results, o, s) /\ last.ret.results[o][s] # None
            /\ (Has(last.self.results, o, s) /\ last.self.results[o][s] = None)
                  => Has(last.ret.results, o, s) /\ last.ret.results[o][s] = None

\* C23 witness: a merge in which self holds a key with None that other holds
\* with an id, and the merged results hold it with None
C23_Witness ==
    /\ last.op = "merge"
    /\ \E o \in Orgs, s \in Strs :
          /\ Has(last.self.results, o, s) /\ last.self.results[o][s] = None
          /\ Has(last.other.results, o, s) /\ last.other.results[o][s] = 20
          /\ Has(last.other.meta, o, s)
          /\ last.ret.results[o][s] = None
          /\ last.ret.meta[o][s].id = 20

\* C24: the query operations get_unmapped_keys and get_unmapped_use_case_keys
\* are read-only: after a call with any collection the accumulator equals,
\* by __eq__ (the same results and meta mappings), what it was before the
\* call.
C24_UnmappedQueriesReadOnly ==
    /\ last.op = "get_unmapped_keys" => acc[last.self] = last.before
    /\ ulast.op = "get_unmapped_use_case_keys"
          => Deref(heap, uacc[ulast.self]) = ulast.before

\* C25: the accumulator returned by UseCaseKeyResults.merge is independent
\* of its inputs: merge leaves self and other unchanged, and a later
\* add_use_case_key_result on the merged accumulator changes neither self
\* nor other, also for a use case that only one side holds.
C25_MergedIndependentOfInputs ==
    [][/\ \A x, y \in {"A", "B"} :
             UseCaseMerge(x, y)
                 => /\ Deref(heap', uacc'["A"]) = Deref(heap, uacc["A"])
                    /\ Deref(heap', uacc'["B"]) = Deref(heap, uacc["B"])
       /\ \A r \in MergedKeyResultArgs :
             AddUseCaseKeyResult("M", r, NoFetchType, NoExt)
                 => /\ Deref(heap', uacc'["A"]) = Deref(heap, uacc["A"])
                    /\ Deref(heap', uacc'["B"]) = Deref(heap, uacc["B"])]_vars

\* C28: get_unmapped_use_case_keys works on every reachable
\* UseCaseKeyResults, the value of a merge included: it does not raise; for
\* a use case of the collection that the accumulator holds no results for,
\* it reports all keys of that use case as unmapped; and the collection
\* returned holds no use case without unmapped keys.
C28_UnmappedUseCaseKeysOnMerged ==
    ulast.op = "get_unmapped_use_case_keys" =>
        /\ ~ulast.raised
        /\ \A u \in DOMAIN ulast.keys.mapping \ DOMAIN ulast.before :
              /\ u \in DOMAIN ulast.ret.mapping
              /\ ulast.ret.mapping[u].mapping = ulast.keys.mapping[u].mapping
        /\ \A u \in DOMAIN ulast.ret.mapping : ulast.ret.mapping[u].size > 0

\* The Metadata of (o, s) in kr, if any, holds the id that results holds
MetaIdIsResultsId(kr, o, s) ==
    Has(kr.meta, o, s) => Has(kr.results, o, s) /\ kr.meta[o][s].id = kr.results[o][s]

\* C26, as claimed: after any sequence of add_key_result, add_key_results
\* and merge operations, the id stored in the Metadata of a key equals
\* results[org_id][string].
C26_MetadataIdIsResultsId ==
    \A x \in AccNames : \A o \in Orgs, s \in Strs : MetaIdIsResultsId(acc[x], o, s)

\* C26, amended: after any sequence of add_key_result and add_key_results
\* operations that each pass a fetch_type, the id stored in the Metadata of
\* a key equals results[org_id][string]; after A.merge(B) of two such
\* accumulators this holds for every key that A and B do not hold with
\* different ids.
C26_TypedWritesKeepMetadataId ==
    /\ \A x \in {"A", "B"} : \A o \in Orgs, s \in Strs : MetaIdIsResultsId(acc[x], o, s)
    /\ last.op = "merge" =>
          \A o \in Orgs, s \in Strs :
              ~(/\ Has(last.self.results, o, s) /\ Has(last.other.results, o, s)
                /\ last.self.results[o][s] # last.other.results[o][s])
                  => MetaIdIsResultsId(last.ret, o, s)

\* C26 witness: a merge of two accumulators that hold the same key with the
\* same id and with the Metadata of their own stages, and the merged
\* Metadata is that of other
C26_Witness ==
    /\ last.op = "merge"
    /\ \E o \in Orgs, s \in Strs :
          /\ Has(last.self.meta, o, s) /\ Has(last.other.meta, o, s)
          /\ last.self.meta[o][s].fetch_type = HARDCODED
          /\ last.other.meta[o][s].fetch_type = DB_READ
          /\ last.self.results[o][s] = last.other.results[o][s]
          /\ last.ret.meta[o][s] = last.other.meta[o][s]
          /\ last.ret.meta[o][s].id = last.ret.results[o][s]

\* The key (o, s) is in the collection the last get_unmapped_keys returned
ReportedUnmapped(o, s) == o \in DOMAIN last.ret.mapping /\ s \in last.ret.mapping[o]

\* The key (o, s) is exported by get_mapped_key_strings_to_ints of the
\* accumulator the last call was made on
Exported(o, s) ==
    FormatKey(o, s) \in DOMAIN KeyResults_get_mapped_key_strings_to_ints(acc[last.self])

\* C27, as claimed: no key of a KeyCollection C is both reported by
\* get_unmapped_keys(C) and exported by get_mapped_key_strings_to_ints(),
\* the keys recorded with id 0 included.
C27_UnmappedNotExported ==
    last.op = "get_unmapped_keys" =>
        \A o \in DOMAIN last.keys.mapping : \A s \in last.keys.mapping[o] :
            ~(ReportedUnmapped(o, s) /\ Exported(o, s))

\* C27, amended: a key of C is both reported by get_unmapped_keys(C) and
\* exported by get_mapped_key_strings_to_ints() exactly when it is recorded
\* with id 0: such a key is unmapped (0 is falsy) and exported (0 is not
\* None); no other key is both.
C27_UnmappedAndExportedIffZero ==
    last.op = "get_unmapped_keys" =>
        \A o \in DOMAIN last.keys.mapping : \A s \in last.keys.mapping[o] :
            (ReportedUnmapped(o, s) /\ Exported(o, s))
                <=> (Has(acc[last.self].results, o, s) /\ acc[last.self].results[o][s] = 0)

\* C27 witness: a collection is asked about that holds a key recorded with
\* id 0, one that is not recorded and one recorded with 10
C27_Witness ==
    /\ last.op = "get_unmapped_keys"
    /\ \E o1, o2, o3 \in DOMAIN last.keys.mapping :
          \E s1 \in last.keys.mapping[o1], s2 \in last.keys.mapping[o2],
             s3 \in last.keys.mapping[o3] :
              /\ Has(acc["A"].results, o1, s1) /\ acc["A"].results[o1][s1] = 0
              /\ ~Has(acc["A"].results, o2, s2)
              /\ Has(acc["A"].results, o3, s3) /\ acc["A"].results[o3][s3] = 10
              /\ ReportedUnmapped(o1, s1) /\ Exported(o1, s1)
              /\ ReportedUnmapped(o2, s2) /\ ~Exported(o2, s2)
              /\ ~ReportedUnmapped(o3, s3) /\ Exported(o3, s3)

\* C29: add_use_case_key_results(seq, fetch_type, ext) leaves the
\* accumulator in the state that calling add_use_case_key_result(r,
\* fetch_type, ext) for each r of seq, in order, leaves it in, whatever the
\* order of seq: results of different use cases may be interleaved and a key
\* may occur more than once.
C29_BulkAddIsEachAdd ==
    ulast.op = "add_use_case_key_results" =>
        /\ ulast.raised = ulast.each.raised
        /\ Deref(heap, uacc[ulast.self]) = ulast.each.held

\* C29 witness: a sequence p, s, p of key results in which the use case p is
\* interrupted by s and the last element gives another id to the key of the
\* first one
C29_Witness ==
    /\ ulast.op = "add_use_case_key_results"
    /\ ulast.fetch_type = DB_READ
    /\ Len(ulast.arg) = 3
    /\ ulast.arg[1].use_case_id = <<"p">> /\ ulast.arg[2].use_case_id = <<"s">>
    /\ ulast.arg[3].use_case_id = <<"p">>
    /\ ulast.arg[1].string = ulast.arg[3].string
    /\ ulast.arg[1].id = 5 /\ ulast.arg[3].id = None
    /\ heap[uacc["A"].results[<<"p">>]].results[1][ulast.arg[1].string] = None
    /\ heap[uacc["A"].results[<<"p">>]].meta[1][ulast.arg[1].string].id = None

\* No (org_id, string) is held by both mappings org_id -> string -> value
NoSharedKey(d, e) ==
    \A o \in DOMAIN d \cap DOMAIN e : DOMAIN d[o] \cap DOMAIN e[o] = {}

\* C30: KeyResults.merge is order-independent when the two sides do not
\* conflict: if no (org_id, string) occurs in both A.results and B.results
\* and none occurs in both A.meta and B.meta, then A.merge(B) equals
\* B.merge(A), in results and in meta.
C30_MergeCommutesWithoutConflict ==
    (/\ last.op = "merge_both_orders"
     /\ NoSharedKey(acc["A"].results, acc["B"].results)
     /\ NoSharedKey(acc["A"].meta, acc["B"].meta))
        => /\ last.ab.results = last.ba.results
           /\ last.ab.meta = last.ba.meta

\* C30 witness: two accumulators that hold different keys of the same org,
\* each with an id and Metadata, are merged in both orders, and the merged
\* results hold both keys
C30_Witness ==
    /\ last.op = "merge_both_orders"
    /\ NoSharedKey(acc["A"].results, acc["B"].results)
    /\ NoSharedKey(acc["A"].meta, acc["B"].meta)
    /\ \E s, t \in Strs :
          /\ s # t
          /\ Has(acc["A"].results, 1, s) /\ acc["A"].results[1][s] = 10
          /\ Has(acc["B"].results, 1, t) /\ acc["B"].results[1][t] = 20
          /\ Has(acc["A"].meta, 1, s) /\ Has(acc["B"].meta, 1, t)
          /\ DOMAIN last.ab.results[1] = {s, t}
          /\ DOMAIN last.ba.meta[1] = {s, t}

====
